---- MODULE Spec2Model ----
(***************************************************************************)
(* Batch video-analysis orchestrator of the teacher-analysis backend.      *)
(*                                                                         *)
(*   Spec          BatchController.process_batch: upload of the chunks,    *)
(*                 BatchProcessor.process_batch over a ProcessPoolExecutor *)
(*                 of max_workers processes, persistence and response.     *)
(*   SpecPipeline  one worker execution, step by step:                     *)
(*                 analyze_chunk_worker -> ChunkAnalyzer.analyze_chunk,    *)
(*                 then the parent's BatchProcessor._format_result.        *)
(*   SpecSingle    the single-video pipelines                              *)
(*                 (CompleteAnalysisController.upload_and_analyze and      *)
(*                 AnalysisController._run_analysis_pipeline).             *)
(*                                                                         *)
(* Numbers are fixed point.  Units:                                        *)
(*   speaking_rate, avg_pause_duration, pitch_mean, pitch_std,             *)
(*   eye_contact_percentage, gesture_frequency, every score : 1/100        *)
(*   volume_mean, volume_std                               : 1/10000       *)
(*   pose_stability, video_quality_score, confidences      : 1/1000        *)
(*   sub-signals of a weighted sum (in [0,1] in the code)   : 1/10000      *)
(*   engagement sub-signals                                : 1/60          *)
(***************************************************************************)
EXTENDS Integers, Sequences, FiniteSets, TLC

VARIABLES
    \* ---- Spec: BatchController / BatchProcessor / executor
    pc,          \* where BatchController.process_batch is
    files,       \* the uploaded files of the request: "valid" | "invalid"
    videos,      \* db.videos: status of the document inserted for file i
    chunks,      \* the list _upload_all_chunks builds
    submitted,   \* number of chunks handed to run_in_executor
    queue,       \* the executor's call queue (chunk indices, FIFO)
    running,     \* chunk indices whose worker process is executing
    future,      \* chunk index -> state of its future
    awaited,     \* number of futures the await loop has gone through
    results,     \* the list BatchProcessor.process_batch builds
    batch_doc,   \* db.batch_analyses document of this batch
    response,    \* the BatchAnalysisResponse returned
    overtaken,   \* history: a chunk finished before one submitted earlier
    \* ---- SpecPipeline: one worker execution
    p_stage,     \* position of analyze_chunk_worker / analyze_chunk
    p_task,      \* analyzer -> "idle" | "pending" | "running" | "done"
    p_out,       \* analyzer -> what the gather slot holds
    p_invoked,   \* the stage and analyzer functions called so far
    p_completed, \* those of them that have returned or raised
    p_data,      \* transcript, confidence, elapsed time
    p_raw,       \* what the worker hands back to the parent
    p_result,    \* the ChunkAnalysisResult the parent formats
    \* ---- SpecSingle: single-video pipeline
    s_path,      \* "complete" | "background"
    s_stage,     \* position of the pipeline
    s_task,      \* gather task -> "idle" | "pending" | "running" | "done"
    s_out,       \* gather task -> what the gather slot holds
    s_scores,    \* what calculate_scores returned
    s_analysis,  \* the analysis_results document
    s_video,     \* status of the video document
    s_gemini,    \* how the technical-depth analyzer got its result
    \* ---- SpecScoring: the scoring functions on their own
    sc_mode,     \* "input" | "chunk" | "video": which scorer has been applied
    sc_in,       \* the metrics handed to the scorer
    sc_out,      \* what the scorer returned
    \* ---- SpecWorkers: the worker processes of the executor
    w_queue,     \* chunk indices submitted and not yet started (FIFO)
    w_proc,      \* process -> the call it executes and the analyzer it holds
    w_done,      \* chunk indices whose call has returned or raised
    \* ---- Spec: GET /batch/{batch_id}
    fetched,     \* what get_batch_results gave for the last request
    \* ---- SpecHang, SpecCrash: what can go wrong in a worker process
    hung,        \* chunk indices whose pipeline never terminates
    crashed,     \* the chunk whose worker process died (0: none)
    \* ---- SpecStore: the videos and analysis_results collections
    d_videos,    \* video id -> status of its document ("none": never inserted)
    d_analyses,  \* the documents of analysis_results
    d_next,      \* the next analysis id, also the clock of created_at
    d_tasks,     \* the analyses in flight
    d_deleting,  \* videos whose delete_video has found the document
    d_deleted,   \* videos whose delete_video has returned True
    d_got,       \* the last answer of get_analysis_by_video
    \* ---- SpecContext: one call of BatchProcessor.process_batch
    c_stage,     \* "ready" before the call, "done" after it
    c_context,   \* the context argument
    c_outcomes,  \* per chunk, what its worker ends with
    c_calls,     \* per chunk, the arguments analyze_chunk_worker was given
    c_results    \* the list process_batch returned

batchVars == <<pc, files, videos, chunks, submitted, queue, running, future,
               awaited, results, batch_doc, response, overtaken>>
pipeVars == <<p_stage, p_task, p_out, p_invoked, p_completed, p_data, p_raw,
              p_result>>
singleVars == <<s_path, s_stage, s_task, s_out, s_scores, s_analysis, s_video,
                s_gemini>>
scoreVars == <<sc_mode, sc_in, sc_out>>
workerVars == <<w_queue, w_proc, w_done>>
fetchVars == <<fetched>>
poolVars == <<hung, crashed>>
storeVars == <<d_videos, d_analyses, d_next, d_tasks, d_deleting, d_deleted,
               d_got>>
ctxVars == <<c_stage, c_context, c_outcomes, c_calls, c_results>>
restVars == <<scoreVars, workerVars, fetchVars, poolVars, storeVars, ctxVars>>
vars == <<batchVars, pipeVars, singleVars, restVars>>

----------------------------------------------------------------------------
(* Bounds of the model *)

\* largest number of files in one batch request
MaxChunks == 4

(* Program constants *)

\* BatchController.__init__: BatchProcessor(max_workers=3)
max_workers == 3

\* ChunkAnalyzer._calculate_chunk_scores: 0.25, 0.25, 0.30, 0.20 (in 1/100)
CHUNK_WEIGHT_COMMUNICATION == 25
CHUNK_WEIGHT_ENGAGEMENT == 25
CHUNK_WEIGHT_CLARITY == 30
CHUNK_WEIGHT_INTERACTION == 20

\* Settings: the five weights of the single-video mode (in 1/100)
WEIGHT_ENGAGEMENT == 20
WEIGHT_COMMUNICATION == 20
WEIGHT_TECHNICAL_DEPTH == 30
WEIGHT_CLARITY == 20
WEIGHT_INTERACTION == 10

----------------------------------------------------------------------------
(* Arithmetic helpers *)

Min(a, b) == IF a <= b THEN a ELSE b
Max(a, b) == IF a >= b THEN a ELSE b

\* round(n/d) for n >= 0, d > 0, ties to even: Python's round(x, 2) on the
\* exact value (scores are kept in 1/100, so this is the rounding to 2 places)
Round(n, d) ==
    LET q == n \div d
        r == n % d
    IN IF 2 * r < d THEN q
       ELSE IF 2 * r > d THEN q + 1
       ELSE IF q % 2 = 0 THEN q ELSE q + 1

\* dict key lookup that would raise KeyError
HasKeys(d, keys) == keys \subseteq DOMAIN d

----------------------------------------------------------------------------
(* Analyzer outputs *)

AudioKeys == {"speaking_rate", "pause_count", "avg_pause_duration",
              "stuttering_count", "volume_mean", "volume_std",
              "pitch_mean", "pitch_std"}
EngagementKeys == {"qna_pairs", "question_count", "interaction_moments"}
VisualKeys == {"eye_contact_percentage", "gesture_frequency",
               "pose_stability", "video_quality_score"}
TechnicalKeys == {"concept_count", "concept_correctness_score",
                  "depth_score", "technical_terms"}

\* ChunkAnalyzer._default_audio_metrics
DefaultAudioMetrics ==
    [speaking_rate |-> 15000, pause_count |-> 10, avg_pause_duration |-> 100,
     stuttering_count |-> 0, volume_mean |-> 500, volume_std |-> 100,
     pitch_mean |-> 20000, pitch_std |-> 3000]

\* ChunkAnalyzer._default_engagement
DefaultEngagement ==
    [qna_pairs |-> 0, question_count |-> 0, interaction_moments |-> 0,
     rhetorical_questions |-> 0, direct_address_count |-> 0]

\* ChunkAnalyzer._default_visual
DefaultVisual ==
    [eye_contact_percentage |-> 5000, gesture_frequency |-> 500,
     pose_stability |-> 700, video_quality_score |-> 500]

\* values AudioService.analyze_audio can return (a fast, stuttering speaker;
\* a slow quiet one)
AudioOutputs ==
    { [speaking_rate |-> 18250, pause_count |-> 3, avg_pause_duration |-> 72,
       stuttering_count |-> 2, volume_mean |-> 812, volume_std |-> 455,
       pitch_mean |-> 18040, pitch_std |-> 6210],
      [speaking_rate |-> 9000, pause_count |-> 25, avg_pause_duration |-> 140,
       stuttering_count |-> 12, volume_mean |-> 40, volume_std |-> 12,
       pitch_mean |-> 15000, pitch_std |-> 1234] }

\* values NLPService.analyze_engagement can return
EngagementOutputs ==
    { [qna_pairs |-> 2, question_count |-> 7, interaction_moments |-> 11,
       rhetorical_questions |-> 1, direct_address_count |-> 14],
      [qna_pairs |-> 12, question_count |-> 20, interaction_moments |-> 31,
       rhetorical_questions |-> 6, direct_address_count |-> 45] }

\* values VisualService.analyze_video can return
VisualOutputs ==
    { [eye_contact_percentage |-> 8333, gesture_frequency |-> 400,
       pose_stability |-> 912, video_quality_score |-> 1000],
      [eye_contact_percentage |-> 0, gesture_frequency |-> 1200,
       pose_stability |-> 500, video_quality_score |-> 37] }

\* values SpeechService.transcribe can return: (transcript, confidence)
TranscribeOutputs ==
    { [transcript |-> "what is a heap? a heap orders the data", confidence |-> 913],
      [transcript |-> "", confidence |-> 0] }

\* messages of the exceptions the stages raise
\* (each is an instance of Exception)
ExtractErrors == {"ffmpeg error"}
TranscribeErrors == {"whisper failed"}
WorkerErrors == {"cannot load model"}
AnalyzerErrors == {"analyzer error"}

Exc(msg) == [kind |-> "exception", msg |-> msg]
IsExc(x) == x.kind = "exception"
Val(v) == [kind |-> "value", value |-> v]

----------------------------------------------------------------------------
(* ChunkAnalyzer: the scoring of one chunk (4 categories, no Gemini) *)

\* the weights of the sub-signals inside each category formula, in 1/100
\* (the same numbers in ChunkAnalyzer and in ScoringService)
CommunicationWeights ==
    [rate |-> 30, pause |-> 20, stutter |-> 20, volume |-> 15, pitch |-> 15]
EngagementWeights ==
    [qna |-> 25, question |-> 20, interaction |-> 25, rhetorical |-> 15,
     direct_address |-> 15]
ClarityWeights ==
    [video_quality |-> 25, audio_quality |-> 25, energy |-> 20,
     pitch_variation |-> 15, eye_contact |-> 15]
InteractionWeights == [eye_contact |-> 50, gesture |-> 30, pose_stability |-> 20]
TechnicalWeights == [concept |-> 30, correctness |-> 40, depth |-> 30]

\* the piecewise "optimal band" of the speaking rate, in 1/10000
RateScore(speaking_rate) ==
    IF 13000 <= speaking_rate /\ speaking_rate <= 17000 THEN 10000
    ELSE IF (10000 <= speaking_rate /\ speaking_rate < 13000)
            \/ (17000 < speaking_rate /\ speaking_rate <= 20000) THEN 7000
    ELSE 4000

\* ChunkAnalyzer._calculate_communication
CalculateCommunication(audio_metrics) ==
    LET rate_score == RateScore(audio_metrics.speaking_rate)
        pause_score == IF 5 <= audio_metrics.pause_count
                          /\ audio_metrics.pause_count <= 20
                       THEN 10000 ELSE 6000
        stutter_score == Max(0, 10000 - audio_metrics.stuttering_count * 1000)
        volume_score == Min(10000, audio_metrics.volume_std * 10)
        pitch_score == Min(10000, audio_metrics.pitch_std * 2)
    IN Round(rate_score * CommunicationWeights.rate
             + pause_score * CommunicationWeights.pause
             + stutter_score * CommunicationWeights.stutter
             + volume_score * CommunicationWeights.volume
             + pitch_score * CommunicationWeights.pitch, 100)

\* engagement_data.get(key, 0)
GetOr0(d, key) == IF key \in DOMAIN d THEN d[key] ELSE 0

\* ChunkAnalyzer._calculate_engagement (sub-signals in 1/60)
CalculateEngagement(engagement_data) ==
    LET qna_score == Min(60, engagement_data.qna_pairs * 6)
        question_score == Min(60, engagement_data.question_count * 4)
        interaction_score == Min(60, engagement_data.interaction_moments * 3)
        rhetorical_score ==
            Min(60, GetOr0(engagement_data, "rhetorical_questions") * 12)
        direct_address_score ==
            Min(60, GetOr0(engagement_data, "direct_address_count") * 2)
    IN Round((qna_score * EngagementWeights.qna
              + question_score * EngagementWeights.question
              + interaction_score * EngagementWeights.interaction
              + rhetorical_score * EngagementWeights.rhetorical
              + direct_address_score * EngagementWeights.direct_address)
             * 100, 60)

\* min(1.0, volume_mean * 100), min(1.0, volume_mean * 50),
\* min(1.0, pitch_std / 50), in 1/10000
AudioQuality(audio_metrics) == Min(10000, audio_metrics.volume_mean * 100)
EnergyScore(audio_metrics) == Min(10000, audio_metrics.volume_mean * 50)
PitchVariation(audio_metrics) == Min(10000, audio_metrics.pitch_std * 2)

\* ChunkAnalyzer._calculate_clarity
CalculateClarity(audio_metrics, visual_data) ==
    LET video_quality == visual_data.video_quality_score * 10
        eye_contact_score == visual_data.eye_contact_percentage
    IN Round(video_quality * ClarityWeights.video_quality
             + AudioQuality(audio_metrics) * ClarityWeights.audio_quality
             + EnergyScore(audio_metrics) * ClarityWeights.energy
             + PitchVariation(audio_metrics) * ClarityWeights.pitch_variation
             + eye_contact_score * ClarityWeights.eye_contact, 100)

\* ChunkAnalyzer._calculate_interaction
CalculateInteraction(visual_data) ==
    LET eye_contact_score == visual_data.eye_contact_percentage
        gesture_score == IF 300 <= visual_data.gesture_frequency
                            /\ visual_data.gesture_frequency <= 800
                         THEN 10000 ELSE 6000
        pose_stability == visual_data.pose_stability * 10
    IN Round(eye_contact_score * InteractionWeights.eye_contact
             + gesture_score * InteractionWeights.gesture
             + pose_stability * InteractionWeights.pose_stability, 100)

\* mutant of CalculateChunkScores: the chunk is scored with the five
\* weights of the single-video mode, a technical-depth category included
CalculateChunkScoresFiveWay(audio_metrics, engagement_data, visual_data) ==
    LET comm_score == CalculateCommunication(audio_metrics)
        eng_score == CalculateEngagement(engagement_data)
        clarity_score == CalculateClarity(audio_metrics, visual_data)
        interaction_score == CalculateInteraction(visual_data)
    IN [communication |-> comm_score,
        engagement |-> eng_score,
        technical_depth |-> 0,
        clarity |-> clarity_score,
        interaction |-> interaction_score,
        overall |-> Round(comm_score * WEIGHT_COMMUNICATION
                          + eng_score * WEIGHT_ENGAGEMENT
                          + clarity_score * WEIGHT_CLARITY
                          + interaction_score * WEIGHT_INTERACTION, 100)]

\* ChunkAnalyzer._calculate_chunk_scores
CalculateChunkScores(audio_metrics, engagement_data, visual_data) ==
    LET comm_score == CalculateCommunication(audio_metrics)
        eng_score == CalculateEngagement(engagement_data)
        clarity_score == CalculateClarity(audio_metrics, visual_data)
        interaction_score == CalculateInteraction(visual_data)
    IN [communication |-> comm_score,
        engagement |-> eng_score,
        clarity |-> clarity_score,
        interaction |-> interaction_score,
        overall |-> Round(comm_score * CHUNK_WEIGHT_COMMUNICATION
                          + eng_score * CHUNK_WEIGHT_ENGAGEMENT
                          + clarity_score * CHUNK_WEIGHT_CLARITY
                          + interaction_score * CHUNK_WEIGHT_INTERACTION, 100)]

----------------------------------------------------------------------------
(* ChunkAnalyzer.analyze_chunk: what it returns *)

\* mutant of OrDefault: the slot's value is dropped for the default
OrDefaultAlways(slot, default) == default

\* results[i] if not isinstance(results[i], Exception) else default
OrDefault(slot, default) == IF IsExc(slot) THEN default ELSE slot.value

\* the dict of the success path (analyze_chunk's return after step 4)
SuccessDict(transcribed, slots, elapsed) ==
    LET audio_metrics == OrDefault(slots.audio, DefaultAudioMetrics)
        engagement_data == OrDefault(slots.engagement, DefaultEngagement)
        visual_data == OrDefault(slots.visual, DefaultVisual)
    IN [status |-> "success",
        transcript |-> transcribed.transcript,
        transcript_confidence |-> transcribed.confidence,
        audio_metrics |-> audio_metrics,
        engagement_data |-> engagement_data,
        visual_data |-> visual_data,
        scores |-> CalculateChunkScores(audio_metrics, engagement_data,
                                        visual_data),
        processing_time |-> elapsed]

\* mutant of FailedDict: the message of the exception is not kept
FailedDictUnknownError(msg, elapsed) ==
    [status |-> "failed", error |-> "Unknown error",
     processing_time |-> elapsed]

\* the dict of analyze_chunk's except branch
FailedDict(msg, elapsed) ==
    [status |-> "failed", error |-> msg, processing_time |-> elapsed]

----------------------------------------------------------------------------
(* BatchProcessor: formatting of a worker's return value *)

\* mutant of FormatErrorResult: the failed chunk gets the analyzers' fallback
\* metrics and the synthetic video id instead of the zero record
FormatErrorResultFallback(chunk, error) ==
    [chunk_id |-> chunk.chunk_id,
     video_id |-> chunk.video_id,
     filename |-> chunk.filename,
     duration |-> chunk.duration,
     size |-> chunk.size,
     transcript |-> "",
     transcript_confidence |-> 0,
     communication |->
        [speaking_rate |-> 15000, pause_count |-> 10,
         avg_pause_duration |-> 100, stuttering_count |-> 0,
         volume_mean |-> 500, volume_std |-> 100,
         pitch_mean |-> 20000, pitch_std |-> 3000, score |-> 0],
     engagement |->
        [qna_pairs |-> 0, question_count |-> 0, interaction_moments |-> 0,
         rhetorical_questions |-> 0, direct_address_count |-> 0, score |-> 0],
     clarity |->
        [video_quality_score |-> 500, audio_quality_score |-> 0,
         energy_score |-> 0, pitch_variation |-> 0,
         eye_contact_percentage |-> 5000, score |-> 0],
     interaction |->
        [eye_contact_duration |-> 5000, gesture_frequency |-> 500,
         pose_stability |-> 700, score |-> 0],
     overall_score |-> 0,
     processing_time |-> 0,
     status |-> "failed",
     error_message |-> error]

\* BatchProcessor._format_error_result
FormatErrorResult(chunk, error) ==
    [chunk_id |-> chunk.chunk_id,
     video_id |-> chunk.video_id,
     filename |-> chunk.filename,
     duration |-> chunk.duration,
     size |-> chunk.size,
     transcript |-> "",
     transcript_confidence |-> 0,
     communication |->
        [speaking_rate |-> 0, pause_count |-> 0, avg_pause_duration |-> 0,
         stuttering_count |-> 0, volume_mean |-> 0, volume_std |-> 0,
         pitch_mean |-> 0, pitch_std |-> 0, score |-> 0],
     engagement |->
        [qna_pairs |-> 0, question_count |-> 0, interaction_moments |-> 0,
         rhetorical_questions |-> 0, direct_address_count |-> 0, score |-> 0],
     clarity |->
        [video_quality_score |-> 0, audio_quality_score |-> 0,
         energy_score |-> 0, pitch_variation |-> 0,
         eye_contact_percentage |-> 0, score |-> 0],
     interaction |->
        [eye_contact_duration |-> 0, gesture_frequency |-> 0,
         pose_stability |-> 0, score |-> 0],
     overall_score |-> 0,
     processing_time |-> 0,
     status |-> "failed",
     error_message |-> error]

\* BatchProcessor._format_result
FormatResult(chunk, analysis) ==
    IF analysis.status = "failed"
    THEN FormatErrorResult(chunk, analysis.error)
    ELSE
      LET audio_metrics == analysis.audio_metrics
          engagement_data == analysis.engagement_data
          visual_data == analysis.visual_data
          scores == analysis.scores
      IN [chunk_id |-> chunk.chunk_id,
          video_id |-> chunk.video_id,
          filename |-> chunk.filename,
          duration |-> chunk.duration,
          size |-> chunk.size,
          transcript |-> analysis.transcript,
          transcript_confidence |-> analysis.transcript_confidence,
          communication |->
             [speaking_rate |-> audio_metrics.speaking_rate,
              pause_count |-> audio_metrics.pause_count,
              avg_pause_duration |-> audio_metrics.avg_pause_duration,
              stuttering_count |-> audio_metrics.stuttering_count,
              volume_mean |-> audio_metrics.volume_mean,
              volume_std |-> audio_metrics.volume_std,
              pitch_mean |-> audio_metrics.pitch_mean,
              pitch_std |-> audio_metrics.pitch_std,
              score |-> scores.communication],
          engagement |->
             [qna_pairs |-> engagement_data.qna_pairs,
              question_count |-> engagement_data.question_count,
              interaction_moments |-> engagement_data.interaction_moments,
              rhetorical_questions |->
                  GetOr0(engagement_data, "rhetorical_questions"),
              direct_address_count |->
                  GetOr0(engagement_data, "direct_address_count"),
              score |-> scores.engagement],
          clarity |->
             [video_quality_score |-> visual_data.video_quality_score,
              audio_quality_score |-> AudioQuality(audio_metrics),
              energy_score |-> EnergyScore(audio_metrics),
              pitch_variation |-> PitchVariation(audio_metrics),
              eye_contact_percentage |-> visual_data.eye_contact_percentage,
              score |-> scores.clarity],
          interaction |->
             [eye_contact_duration |-> visual_data.eye_contact_percentage,
              gesture_frequency |-> visual_data.gesture_frequency,
              pose_stability |-> visual_data.pose_stability,
              score |-> scores.interaction],
          overall_score |-> scores.overall,
          processing_time |-> analysis.processing_time,
          status |-> "success",
          error_message |-> "None"]

----------------------------------------------------------------------------
(* analyze_chunk_worker, as a function of what each step does *)

\* one execution of a worker: the outcome of the ChunkAnalyzer constructor,
\* of the two sequential stages and of the three analyzers
Scenarios ==
    [init : {Val("ok")} \cup {Exc(m) : m \in WorkerErrors},
     extract : {Val("ok")} \cup {Exc(m) : m \in ExtractErrors},
     transcribe : {Val(t) : t \in TranscribeOutputs}
                  \cup {Exc(m) : m \in TranscribeErrors},
     audio : {Val(a) : a \in AudioOutputs}
             \cup {Exc(m) : m \in AnalyzerErrors},
     engagement : {Val(e) : e \in EngagementOutputs}
                  \cup {Exc(m) : m \in AnalyzerErrors},
     visual : {Val(v) : v \in VisualOutputs}
              \cup {Exc(m) : m \in AnalyzerErrors}]

\* ChunkAnalyzer.analyze_chunk; the elapsed time is the number of steps run
AnalyzeChunk(sc) ==
    IF IsExc(sc.extract) THEN FailedDict(sc.extract.msg, 1)
    ELSE IF IsExc(sc.transcribe) THEN FailedDict(sc.transcribe.msg, 2)
    ELSE SuccessDict(sc.transcribe.value,
                     [audio |-> sc.audio, engagement |-> sc.engagement,
                      visual |-> sc.visual], 4)

\* analyze_chunk_worker: what the future of the chunk ends up holding
AnalyzeChunkWorker(sc) ==
    IF IsExc(sc.init) THEN sc.init ELSE Val(AnalyzeChunk(sc))

----------------------------------------------------------------------------
(* Spec: BatchController.process_batch *)

Pending == [kind |-> "pending"]
NotSubmitted == [kind |-> "none"]
NoResponse == [status |-> "none"]

\* a run in which nothing raises
AllGood ==
    [init |-> Val("ok"), extract |-> Val("ok"),
     transcribe |->
        Val([transcript |-> "what is a heap? a heap orders the data",
             confidence |-> 913]),
     audio |-> Val(CHOOSE a \in AudioOutputs : a.pause_count = 3),
     engagement |-> Val(CHOOSE e \in EngagementOutputs : e.qna_pairs = 2),
     visual |-> Val(CHOOSE v \in VisualOutputs : v.gesture_frequency = 400)]

\* the scenarios the workers of a batch go through: at most one step or
\* analyzer raises, the others return the value they return in AllGood
BatchScenarios ==
    { sc \in Scenarios :
        /\ \A k \in DOMAIN sc : IsExc(sc[k]) \/ sc[k] = AllGood[k]
        /\ Cardinality({k \in DOMAIN sc : IsExc(sc[k])}) <= 1 }

\* what the future of a chunk can end up holding
WorkerOutcomes == {AnalyzeChunkWorker(sc) : sc \in BatchScenarios}

N == Len(files)

\* the chunk dict _upload_all_chunks appends for file i
ChunkOf(i) ==
    [chunk_id |-> i, video_id |-> i, video_path |-> i, filename |-> i,
     size |-> 1000 * i, duration |-> 30]

\* _upload_all_chunks, one iteration of its loop: the file passes validation,
\* is saved, and its video document is inserted with status "processing"
UploadChunk ==
    /\ pc = "upload"
    /\ LET i == Len(chunks) + 1 IN
         /\ files[i] = "valid"
         /\ videos' = [videos EXCEPT ![i] = "processing"]
         /\ chunks' = Append(chunks, ChunkOf(i))
         /\ pc' = IF i = N THEN "submit" ELSE "upload"
    /\ UNCHANGED <<awaited, overtaken, files, submitted, queue, running, future, results,
                   batch_doc, response>>
    /\ UNCHANGED <<pipeVars, singleVars, restVars>>

\* _upload_all_chunks: validation or saving of file i raises; the
\* VideoUploadException leaves process_batch through its except/raise
UploadFails ==
    /\ pc = "upload"
    /\ files[Len(chunks) + 1] = "invalid"
    /\ pc' = "raised"
    /\ UNCHANGED <<awaited, overtaken, files, videos, chunks, submitted, queue, running, future,
                   results, batch_doc, response>>
    /\ UNCHANGED <<pipeVars, singleVars, restVars>>

\* BatchProcessor.process_batch: loop.run_in_executor for the next chunk
SubmitChunk ==
    /\ pc = "submit"
    /\ LET i == submitted + 1 IN
         /\ submitted' = i
         /\ queue' = Append(queue, i)
         /\ future' = [future EXCEPT ![i] = Pending]
         /\ pc' = IF i = N THEN "await" ELSE "submit"
    /\ UNCHANGED <<awaited, overtaken, files, videos, chunks, running, results, batch_doc,
                   response>>
    /\ UNCHANGED <<pipeVars, singleVars, restVars>>

\* mutant of SlotFree: the executor starts a queued call at once, whatever
\* the number of busy processes
SlotFreeUnbounded == TRUE

\* mutant of SlotFree: the executor has a single worker process
SlotFreeSingle == running = {}

\* ProcessPoolExecutor(max_workers): a worker process is idle
SlotFree == Cardinality(running) < max_workers

\* mutant of Dequeue: the executor takes the call queued last
DequeueLast(q) ==
    [call |-> q[Len(q)], rest |-> SubSeq(q, 1, Len(q) - 1)]

\* the executor's queue of work items is first in, first out
Dequeue(q) == [call |-> Head(q), rest |-> Tail(q)]

\* the executor hands the oldest queued call to an idle worker process
StartWorker ==
    /\ queue # <<>>
    /\ SlotFree
    /\ running' = running \cup {Dequeue(queue).call}
    /\ queue' = Dequeue(queue).rest
    /\ UNCHANGED <<awaited, overtaken, pc, files, videos, chunks, submitted, future, results,
                   batch_doc, response>>
    /\ UNCHANGED <<pipeVars, singleVars, restVars>>

\* mutant of FinishWith: an exception of the worker is lost, the future of
\* its chunk is never set
FinishWithLostException(i, outcomes) ==
    /\ i \in running
    /\ \E outcome \in outcomes :
         future' = IF IsExc(outcome) THEN future
                   ELSE [future EXCEPT ![i] = outcome]
    /\ running' = running \ {i}
    /\ overtaken' = (overtaken \/ \E j \in 1..(i - 1) : future[j] = Pending)
    /\ UNCHANGED <<awaited, pc, files, videos, chunks, submitted, queue, results,
                   batch_doc, response>>
    /\ UNCHANGED <<pipeVars, singleVars, restVars>>

\* analyze_chunk_worker returns or raises in its process; the future is set
\* to one of the given outcomes
FinishWith(i, outcomes) ==
    /\ i \in running
    /\ \E outcome \in outcomes :
         future' = [future EXCEPT ![i] = outcome]
    /\ running' = running \ {i}
    /\ overtaken' = (overtaken \/ \E j \in 1..(i - 1) : future[j] = Pending)
    /\ UNCHANGED <<awaited, pc, files, videos, chunks, submitted, queue, results,
                   batch_doc, response>>
    /\ UNCHANGED <<pipeVars, singleVars, restVars>>

FinishWorker(i) == FinishWith(i, WorkerOutcomes)

\* mutant of AwaitIndex: the loop takes the futures as they complete
\* (asyncio.as_completed) instead of in the order of the list
AwaitIndexAsCompleted ==
    LET ready == {i \in 1..submitted :
                    /\ future[i].kind \in {"value", "exception"}
                    /\ \A k \in 1..Len(results) : results[k].chunk_id # i}
    IN IF ready # {} THEN CHOOSE i \in ready : \A j \in ready : j <= i
       ELSE awaited + 1

\* for chunk, future in futures: the future awaited next
AwaitIndex == awaited + 1

\* mutant of ExceptCatches: the await is not wrapped in try/except
ExceptCatchesNothing(e) == FALSE

\* except Exception as e: the exceptions of the model (the messages of
\* WorkerErrors) stand for instances of Exception, which the clause catches;
\* a BaseException outside Exception (KeyboardInterrupt, SystemExit,
\* CancelledError) is not among them
ExceptCatches(e) == TRUE

\* mutant of OnException: the except branch only logs
OnExceptionLogOnly(chunk, e) == results

\* the except branch: results.append(self._format_error_result(chunk, str(e)))
OnException(chunk, e) == Append(results, FormatErrorResult(chunk, e.msg))

\* BatchProcessor.process_batch: await of the next future, and the append
AwaitFuture ==
    /\ pc = "await"
    /\ LET i == AwaitIndex
           f == future[i]
       IN
         /\ f.kind \in {"value", "exception"}
         /\ awaited' = awaited + 1
         /\ IF f.kind = "value"
            THEN /\ results' = Append(results, FormatResult(chunks[i], f.value))
                 /\ pc' = IF awaited' = Len(chunks) THEN "save" ELSE "await"
            ELSE IF ExceptCatches(f)
            THEN /\ results' = OnException(chunks[i], f)
                 /\ pc' = IF awaited' = Len(chunks) THEN "save" ELSE "await"
            ELSE /\ results' = results
                 /\ pc' = "raised"
    /\ UNCHANGED <<overtaken, files, videos, chunks, submitted, queue, running, future,
                   batch_doc, response>>
    /\ UNCHANGED <<pipeVars, singleVars, restVars>>

\* sum(1 for r in results if r.status == st)
CountStatus(rs, st) == Cardinality({k \in 1..Len(rs) : rs[k].status = st})

\* BatchController._save_batch_results
SaveBatchResults ==
    /\ pc = "save"
    /\ batch_doc' =
         Append(batch_doc,
                [total_chunks |-> Len(results),
                 successful_chunks |-> CountStatus(results, "success"),
                 failed_chunks |-> CountStatus(results, "failed"),
                 results |-> results])
    /\ videos' =
         [v \in DOMAIN videos |->
            IF \E k \in 1..Len(results) : results[k].video_id = v
            THEN LET r == results[CHOOSE k \in 1..Len(results) :
                                    results[k].video_id = v]
                 IN IF r.status = "success" THEN "completed" ELSE "failed"
            ELSE videos[v]]
    /\ pc' = "respond"
    /\ UNCHANGED <<awaited, overtaken, files, chunks, submitted, queue, running, future, results,
                   response>>
    /\ UNCHANGED <<pipeVars, singleVars, restVars>>

\* mutant of BatchStatus: the all-failed case is not told from the mixed one
BatchStatusTwoWay(successful, failed) ==
    IF failed = 0 THEN "completed" ELSE "partial"

\* BatchController.process_batch, step 4: the overall status
BatchStatus(successful, failed) ==
    IF failed = 0 THEN "completed"
    ELSE IF successful = 0 THEN "failed"
    ELSE "partial"

\* mutant of FailedCount: the failures are counted by a status no result has
FailedCountByError(rs, successful) == CountStatus(rs, "error")

\* failed = len(results) - successful
FailedCount(rs, successful) == Len(rs) - successful

\* BatchController.process_batch, step 4: the response
BuildResponse ==
    /\ pc = "respond"
    /\ LET successful == CountStatus(results, "success")
           failed == FailedCount(results, successful)
       IN response' =
            [total_chunks |-> Len(files),
             successful_chunks |-> successful,
             failed_chunks |-> failed,
             status |-> BatchStatus(successful, failed),
             results |-> results]
    /\ pc' = "done"
    /\ UNCHANGED <<awaited, overtaken, files, videos, chunks, submitted, queue, running, future,
                   results, batch_doc>>
    /\ UNCHANGED <<pipeVars, singleVars, restVars>>

\* the fields of BatchAnalysisResponse kept by the model; none of them has a
\* default, so each is required (batch_id, the two times and the two dates
\* are left out of both records)
BatchAnalysisResponseFields ==
    {"total_chunks", "successful_chunks", "failed_chunks", "status", "results"}

\* BatchAnalysisResponse(**batch): pydantic validation of a stored document
BatchAnalysisResponseFrom(batch) ==
    IF BatchAnalysisResponseFields \subseteq DOMAIN batch
    THEN Val([f \in BatchAnalysisResponseFields |-> batch[f]])
    ELSE Exc("validation error for BatchAnalysisResponse: field required")

\* BatchController.get_batch_results for the batch_id of the saved batch
GetBatchResults ==
    /\ pc = "done"
    /\ fetched = Pending
    /\ batch_doc # <<>>
    /\ fetched' = BatchAnalysisResponseFrom(batch_doc[Len(batch_doc)])
    /\ UNCHANGED <<batchVars, pipeVars, singleVars, scoreVars, workerVars,
                   poolVars, storeVars, ctxVars>>

\* BatchController.get_batch_results for a batch_id that was never saved
GetBatchResultsNotFound ==
    /\ pc \in {"done", "raised"}
    /\ fetched = Pending
    /\ fetched' = [kind |-> "not_found"]
    /\ UNCHANGED <<batchVars, pipeVars, singleVars, scoreVars, workerVars,
                   poolVars, storeVars, ctxVars>>

PipeIdle ==
    /\ p_stage = "off" /\ p_task = <<>> /\ p_out = <<>> /\ p_invoked = {}
    /\ p_completed = {} /\ p_data = <<>> /\ p_raw = <<>> /\ p_result = <<>>
SingleIdle ==
    /\ s_path = "off" /\ s_stage = "off" /\ s_task = <<>> /\ s_out = <<>>
    /\ s_scores = <<>> /\ s_analysis = <<>> /\ s_video = "off"
    /\ s_gemini = "off"
ScoreIdle == sc_mode = "off" /\ sc_in = <<>> /\ sc_out = <<>>
WorkerIdle == w_queue = <<>> /\ w_proc = <<>> /\ w_done = {}
FetchIdle == fetched = Pending
PoolIdle == hung = {} /\ crashed = 0
StoreIdle ==
    /\ d_videos = <<>> /\ d_analyses = {} /\ d_next = 0 /\ d_tasks = {}
    /\ d_deleting = {} /\ d_deleted = {} /\ d_got = Pending
CtxIdle ==
    /\ c_stage = "off" /\ c_context = "None" /\ c_outcomes = <<>>
    /\ c_calls = <<>> /\ c_results = <<>>
RestIdle ==
    /\ ScoreIdle /\ WorkerIdle /\ FetchIdle /\ PoolIdle /\ StoreIdle
    /\ CtxIdle

Init ==
    /\ pc = "upload"
    /\ files \in UNION {[1..n -> {"valid", "invalid"}] : n \in 1..MaxChunks}
    /\ videos = [i \in 1..Len(files) |-> "none"]
    /\ chunks = <<>>
    /\ submitted = 0
    /\ queue = <<>>
    /\ running = {}
    /\ future = [i \in 1..Len(files) |-> NotSubmitted]
    /\ awaited = 0
    /\ results = <<>>
    /\ batch_doc = <<>>
    /\ response = NoResponse
    /\ overtaken = FALSE
    /\ PipeIdle
    /\ SingleIdle
    /\ RestIdle

Next ==
    \/ UploadChunk
    \/ UploadFails
    \/ SubmitChunk
    \/ StartWorker
    \/ \E i \in 1..MaxChunks : FinishWorker(i)
    \/ AwaitFuture
    \/ SaveBatchResults
    \/ BuildResponse
    \/ GetBatchResults
    \/ GetBatchResultsNotFound

Spec == Init /\ [][Next]_vars

----------------------------------------------------------------------------
(* SpecPipeline: one worker execution, step by step *)

Analyzers == {"audio", "engagement", "visual"}

\* what each analyzer of the fan-out can return
AnalyzerOutputs(a) ==
    CASE a = "audio" -> AudioOutputs
      [] a = "engagement" -> EngagementOutputs
      [] a = "visual" -> VisualOutputs

\* the chunk the worker is given
TheChunk == ChunkOf(1)

BatchIdle ==
    /\ pc = "off" /\ files = <<>> /\ videos = <<>> /\ chunks = <<>>
    /\ submitted = 0 /\ queue = <<>> /\ running = {} /\ future = <<>>
    /\ awaited = 0 /\ results = <<>> /\ batch_doc = <<>>
    /\ response = NoResponse /\ overtaken = FALSE

PipeInit ==
    /\ p_stage = "init"
    /\ p_task = [a \in Analyzers |-> "idle"]
    /\ p_out = [a \in Analyzers |-> Pending]
    /\ p_invoked = {}
    /\ p_completed = {}
    /\ p_data = [transcribed |-> [transcript |-> "", confidence |-> 0],
                 elapsed |-> 0, failed |-> "none", raised |-> ""]
    /\ p_raw = Pending
    /\ p_result = NoResponse
    /\ BatchIdle
    /\ SingleIdle
    /\ RestIdle

\* the clock of analyze_chunk: one unit per step
Tick(d) == [d EXCEPT !.elapsed = @ + 1]

\* analyze_chunk_worker: analyzer = ChunkAnalyzer(); then analyze_chunk calls
\* video_processor.process_video
ConstructAnalyzer ==
    /\ p_stage = "init"
    /\ p_stage' = "extracting"
    /\ p_invoked' = p_invoked \cup {"process_video"}
    /\ UNCHANGED <<p_task, p_out, p_completed, p_data, p_raw, p_result>>
    /\ UNCHANGED <<batchVars, singleVars, restVars>>

\* analyze_chunk_worker: the constructor raises (a model fails to load); the
\* finally closes the loop and the exception goes to the future
ConstructAnalyzerRaises ==
    /\ p_stage = "init"
    /\ \E m \in WorkerErrors :
         /\ p_raw' = Exc(m)
         /\ p_data' = [p_data EXCEPT !.failed = "init", !.raised = m]
    /\ p_stage' = "returned"
    /\ UNCHANGED <<p_task, p_out, p_invoked, p_completed, p_result>>
    /\ UNCHANGED <<batchVars, singleVars, restVars>>

\* step 1 returns; step 2, speech_service.transcribe, is called
ExtractDone ==
    /\ p_stage = "extracting"
    /\ p_completed' = p_completed \cup {"process_video"}
    /\ p_invoked' = p_invoked \cup {"transcribe"}
    /\ p_data' = Tick(p_data)
    /\ p_stage' = "transcribing"
    /\ UNCHANGED <<p_task, p_out, p_raw, p_result>>
    /\ UNCHANGED <<batchVars, singleVars, restVars>>

\* step 1 raises: analyze_chunk's except branch returns the failed dict
ExtractFails ==
    /\ p_stage = "extracting"
    /\ p_completed' = p_completed \cup {"process_video"}
    /\ \E m \in ExtractErrors :
         /\ p_data' = [Tick(p_data) EXCEPT !.failed = "extract", !.raised = m]
         /\ p_raw' = Val(FailedDict(m, p_data'.elapsed))
    /\ p_stage' = "returned"
    /\ UNCHANGED <<p_task, p_out, p_invoked, p_result>>
    /\ UNCHANGED <<batchVars, singleVars, restVars>>

\* step 2 returns; step 3, asyncio.gather, schedules the three analyzers
TranscribeDone ==
    /\ p_stage = "transcribing"
    /\ p_completed' = p_completed \cup {"transcribe"}
    /\ \E t \in TranscribeOutputs :
         p_data' = [Tick(p_data) EXCEPT !.transcribed = t]
    /\ p_task' = [a \in Analyzers |-> "pending"]
    /\ p_stage' = "gather"
    /\ UNCHANGED <<p_out, p_invoked, p_raw, p_result>>
    /\ UNCHANGED <<batchVars, singleVars, restVars>>

\* step 2 raises: analyze_chunk's except branch returns the failed dict
TranscribeFails ==
    /\ p_stage = "transcribing"
    /\ p_completed' = p_completed \cup {"transcribe"}
    /\ \E m \in TranscribeErrors :
         /\ p_data' = [Tick(p_data) EXCEPT !.failed = "transcribe",
                                            !.raised = m]
         /\ p_raw' = Val(FailedDict(m, p_data'.elapsed))
    /\ p_stage' = "returned"
    /\ UNCHANGED <<p_task, p_out, p_invoked, p_result>>
    /\ UNCHANGED <<batchVars, singleVars, restVars>>

\* the event loop runs a scheduled analyzer coroutine
StartAnalyzer(a) ==
    /\ p_stage = "gather"
    /\ p_task[a] = "pending"
    /\ p_task' = [p_task EXCEPT ![a] = "running"]
    /\ p_invoked' = p_invoked \cup {a}
    /\ UNCHANGED <<p_stage, p_out, p_completed, p_data, p_raw, p_result>>
    /\ UNCHANGED <<batchVars, singleVars, restVars>>

\* an analyzer returns its metrics
AnalyzerReturns(a) ==
    /\ p_task[a] = "running"
    /\ \E v \in AnalyzerOutputs(a) : p_out' = [p_out EXCEPT ![a] = Val(v)]
    /\ p_task' = [p_task EXCEPT ![a] = "done"]
    /\ p_completed' = p_completed \cup {a}
    /\ UNCHANGED <<p_stage, p_invoked, p_data, p_raw, p_result>>
    /\ UNCHANGED <<batchVars, singleVars, restVars>>

\* an analyzer raises: return_exceptions=True puts the exception in its slot
AnalyzerRaises(a) ==
    /\ p_task[a] = "running"
    /\ \E m \in AnalyzerErrors : p_out' = [p_out EXCEPT ![a] = Exc(m)]
    /\ p_task' = [p_task EXCEPT ![a] = "done"]
    /\ p_completed' = p_completed \cup {a}
    /\ UNCHANGED <<p_stage, p_invoked, p_data, p_raw, p_result>>
    /\ UNCHANGED <<batchVars, singleVars, restVars>>

\* mutant of GatherComplete: the gather resumes on the first finished task
GatherFirstCompleted(task) == \E a \in DOMAIN task : task[a] = "done"

\* await asyncio.gather(...): resumes when every task has finished
GatherComplete(task) == \A a \in DOMAIN task : task[a] = "done"

\* gather returns; step 4, _calculate_chunk_scores, is called
GatherReturns ==
    /\ p_stage = "gather"
    /\ GatherComplete(p_task)
    /\ p_data' = Tick(p_data)
    /\ p_invoked' = p_invoked \cup {"scoring"}
    /\ p_stage' = "scoring"
    /\ UNCHANGED <<p_task, p_out, p_completed, p_raw, p_result>>
    /\ UNCHANGED <<batchVars, singleVars, restVars>>

\* step 4 returns and analyze_chunk returns the success dict
ScoringDone ==
    /\ p_stage = "scoring"
    /\ p_completed' = p_completed \cup {"scoring"}
    /\ p_data' = Tick(p_data)
    /\ p_raw' = Val(SuccessDict(p_data.transcribed, p_out, p_data'.elapsed))
    /\ p_stage' = "returned"
    /\ UNCHANGED <<p_task, p_out, p_invoked, p_result>>
    /\ UNCHANGED <<batchVars, singleVars, restVars>>

\* the parent: result = await future, then _format_result or the except branch
FormatWorkerReturn ==
    /\ p_stage = "returned"
    /\ p_result' = IF IsExc(p_raw)
                   THEN FormatErrorResult(TheChunk, p_raw.msg)
                   ELSE FormatResult(TheChunk, p_raw.value)
    /\ p_stage' = "formatted"
    /\ UNCHANGED <<p_task, p_out, p_invoked, p_completed, p_data, p_raw>>
    /\ UNCHANGED <<batchVars, singleVars, restVars>>

PipeNext ==
    \/ ConstructAnalyzer
    \/ ConstructAnalyzerRaises
    \/ ExtractDone
    \/ ExtractFails
    \/ TranscribeDone
    \/ TranscribeFails
    \/ \E a \in Analyzers : StartAnalyzer(a)
    \/ \E a \in Analyzers : AnalyzerReturns(a)
    \/ \E a \in Analyzers : AnalyzerRaises(a)
    \/ GatherReturns
    \/ ScoringDone
    \/ FormatWorkerReturn

SpecPipeline == PipeInit /\ [][PipeNext]_vars

----------------------------------------------------------------------------
(* The single-video mode: CompleteAnalysisController.upload_and_analyze and
   AnalysisController._run_analysis_pipeline, parallel branch, with the
   ScoringService *)

\* the five coroutines handed to asyncio.gather
SingleTasks == {"audio", "engagement", "technical", "visual", "ocr"}

\* the tasks whose service re-raises (GeminiService never does)
RaisingTasks == SingleTasks \ {"technical"}

\* the {} that stands for a failed analyzer
EmptyDict == <<>>

\* GeminiService._fallback_analysis: the number of its ten keywords found in
\* the transcript ("data" is in the first transcript of the model)
FoundTerms(transcript) ==
    IF transcript = "what is a heap? a heap orders the data" THEN 1 ELSE 0

\* GeminiService._fallback_analysis (scores in 1/1000, score in 1/100)
FallbackAnalysis(transcript) ==
    [domain |-> "general",
     concept_count |-> FoundTerms(transcript),
     technical_terms |-> FoundTerms(transcript),
     concept_correctness_score |-> 500,
     depth_score |-> Min(1000, FoundTerms(transcript) * 100),
     score |-> Min(10000, FoundTerms(transcript) * 1000)]

\* the fields _parse_gemini_response requires, and its defaults for them
RequiredFields == {"domain", "concept_count", "technical_terms",
                   "concept_correctness_score", "depth_score", "score"}
GeminiDefaults ==
    [domain |-> "general", concept_count |-> 0, technical_terms |-> 0,
     concept_correctness_score |-> 500, depth_score |-> 500, score |-> 5000]

\* answers of the Gemini model: JSON objects (complete, with a zero, a
\* negative and an out-of-range score, without a score, without the counts)
\* and a text that is not JSON
GeminiResponses ==
    { [domain |-> "computer_science", concept_count |-> 8,
       technical_terms |-> 8, concept_correctness_score |-> 800,
       depth_score |-> 700, score |-> 7500],
      [domain |-> "general", concept_count |-> 3,
       technical_terms |-> 3, concept_correctness_score |-> 200,
       depth_score |-> 100, score |-> 0],
      [domain |-> "science", concept_count |-> 25,
       technical_terms |-> 20, concept_correctness_score |-> 900,
       depth_score |-> 900, score |-> 15000],
      [domain |-> "general", concept_count |-> 5,
       technical_terms |-> 5, concept_correctness_score |-> 600,
       depth_score |-> 300, score |-> -500],
      [domain |-> "mathematics", concept_count |-> 6,
       technical_terms |-> 6, concept_correctness_score |-> 700,
       depth_score |-> 400],
      [domain |-> "general", technical_terms |-> 2, score |-> 6200],
      [text |-> "I cannot analyze this transcript"] }

\* GeminiService._parse_gemini_response (technical_terms as their number)
ParseGeminiResponse(response_text) ==
    IF "text" \in DOMAIN response_text
    THEN [domain |-> "general", concept_count |-> 0, technical_terms |-> 0,
          concept_correctness_score |-> 500, depth_score |-> 500,
          score |-> 5000]
    ELSE LET result == [k \in RequiredFields |->
                          IF k \in DOMAIN response_text THEN response_text[k]
                          ELSE GeminiDefaults[k]]
         IN [result EXCEPT !.technical_terms = Min(15, @)]

\* how _parse_gemini_response took an answer
ResponseKind(response_text) ==
    IF "text" \in DOMAIN response_text THEN "unparseable"
    ELSE IF RequiredFields \subseteq DOMAIN response_text THEN "answered"
    ELSE "incomplete"

\* what each service can return
SingleOutputs(t) ==
    CASE t = "audio" -> AudioOutputs
      [] t = "engagement" -> EngagementOutputs
      [] t = "technical" -> {ParseGeminiResponse(r) : r \in GeminiResponses}
      [] t = "visual" -> VisualOutputs
      [] t = "ocr" -> {"slide text"}

\* str(KeyError(key))
KeyError(key) == Exc("'" \o key \o "'")

\* ScoringService._calculate_communication_score: the first key it reads
CalculateCommunicationScore(audio_metrics) ==
    IF ~HasKeys(audio_metrics, {"speaking_rate"}) THEN KeyError("speaking_rate")
    ELSE Val(CalculateCommunication(audio_metrics))

\* ScoringService._calculate_engagement_score
CalculateEngagementScore(engagement_data) ==
    IF ~HasKeys(engagement_data, {"qna_pairs"}) THEN KeyError("qna_pairs")
    ELSE Val(CalculateEngagement(engagement_data))

\* mutant of HasGeminiScore: any score other than 0 counts as provided
HasGeminiScoreNonZero(technical_data) ==
    /\ "score" \in DOMAIN technical_data
    /\ technical_data.score # 0

\* technical_data.get("score") is not None and > 0
HasGeminiScore(technical_data) ==
    /\ "score" \in DOMAIN technical_data
    /\ technical_data.score > 0

\* the fallback calculation of _calculate_technical_score, in 1/100:
\* (concept_score * 0.3 + concept_correctness * 0.4 + depth_score * 0.3) * 100
\* with concept_score in 1/20 and the two others in 1/1000
TechnicalFormula(technical_data) ==
    LET domain == IF "domain" \in DOMAIN technical_data
                  THEN technical_data.domain ELSE "general"
        concept_score ==
            IF domain \in {"computer_science", "mathematics", "science"}
            THEN Min(20, technical_data.concept_count)
            ELSE Min(20, technical_data.concept_count * 2)
    IN Round(concept_score * 50 * TechnicalWeights.concept
             + technical_data.concept_correctness_score
                 * TechnicalWeights.correctness
             + technical_data.depth_score * TechnicalWeights.depth, 10)

\* ScoringService._calculate_technical_score
CalculateTechnicalScore(technical_data) ==
    IF ~HasKeys(technical_data, {"concept_count"})
    THEN KeyError("concept_count")
    ELSE IF ~HasKeys(technical_data, {"concept_correctness_score"})
    THEN KeyError("concept_correctness_score")
    ELSE IF ~HasKeys(technical_data, {"depth_score"})
    THEN KeyError("depth_score")
    ELSE IF ~HasKeys(technical_data, {"technical_terms"})
    THEN KeyError("technical_terms")
    ELSE Val(IF HasGeminiScore(technical_data) THEN technical_data.score
             ELSE TechnicalFormula(technical_data))

\* ScoringService._calculate_clarity_score
CalculateClarityScore(audio_metrics, visual_data) ==
    IF ~HasKeys(visual_data, {"video_quality_score"})
    THEN KeyError("video_quality_score")
    ELSE IF ~HasKeys(audio_metrics, {"volume_mean"}) THEN KeyError("volume_mean")
    ELSE Val(CalculateClarity(audio_metrics, visual_data))

\* ScoringService._calculate_interaction_score
CalculateInteractionScore(visual_data) ==
    IF ~HasKeys(visual_data, {"eye_contact_percentage"})
    THEN KeyError("eye_contact_percentage")
    ELSE Val(CalculateInteraction(visual_data))

\* ScoringService.calculate_scores: the five categories in the order of the
\* code; the first exception leaves the function (except: raise)
CalculateScores(audio_metrics, engagement_data, technical_data, visual_data) ==
    LET communication == CalculateCommunicationScore(audio_metrics)
        engagement == CalculateEngagementScore(engagement_data)
        technical == CalculateTechnicalScore(technical_data)
        clarity == CalculateClarityScore(audio_metrics, visual_data)
        interaction == CalculateInteractionScore(visual_data)
    IN IF IsExc(communication) THEN communication
       ELSE IF IsExc(engagement) THEN engagement
       ELSE IF IsExc(technical) THEN technical
       ELSE IF IsExc(clarity) THEN clarity
       ELSE IF IsExc(interaction) THEN interaction
       ELSE Val([communication |-> communication.value,
                 engagement |-> engagement.value,
                 technical_depth |-> technical.value,
                 clarity |-> clarity.value,
                 interaction |-> interaction.value,
                 overall |->
                    Round(communication.value * WEIGHT_COMMUNICATION
                          + engagement.value * WEIGHT_ENGAGEMENT
                          + technical.value * WEIGHT_TECHNICAL_DEPTH
                          + clarity.value * WEIGHT_CLARITY
                          + interaction.value * WEIGHT_INTERACTION, 100)])

\* results[i] if not isinstance(results[i], Exception) else {}
Unpack(slot) == IF IsExc(slot) THEN EmptyDict ELSE slot.value

\* the document of an analysis that has not been written yet
NoAnalysis == [status |-> "none"]

SingleInit ==
    /\ s_path \in {"complete", "background"}
    /\ s_stage = "entry"
    /\ s_task = [t \in SingleTasks |-> "idle"]
    /\ s_out = [t \in SingleTasks \cup {"transcribe"} |-> Pending]
    /\ s_scores = Pending
    /\ s_analysis = NoAnalysis
    /\ s_video = IF s_path = "complete" THEN "none" ELSE "uploaded"
    /\ s_gemini = "none"
    /\ BatchIdle
    /\ PipeIdle
    /\ RestIdle

\* upload_and_analyze, step 1: the file is validated, saved and recorded
UploadAndAnalyze ==
    /\ s_path = "complete" /\ s_stage = "entry"
    /\ s_video' = "processing"
    /\ s_stage' = "extract"
    /\ UNCHANGED <<s_path, s_task, s_out, s_scores, s_analysis>>
    /\ UNCHANGED <<s_gemini, batchVars, pipeVars, restVars>>

\* upload_and_analyze, step 1 raises: video_id is not bound, the except
\* branch raises VideoUploadException
UploadAndAnalyzeRaises ==
    /\ s_path = "complete" /\ s_stage = "entry"
    /\ s_stage' = "raised"
    /\ UNCHANGED <<s_path, s_task, s_out, s_scores, s_analysis, s_video>>
    /\ UNCHANGED <<s_gemini, batchVars, pipeVars, restVars>>

\* AnalysisController.start_analysis: the analysis document is inserted as
\* "processing" and the pipeline is scheduled as a background task
StartAnalysis ==
    /\ s_path = "background" /\ s_stage = "entry"
    /\ s_analysis' = [status |-> "processing"]
    /\ s_video' = "processing"
    /\ s_stage' = "extract"
    /\ UNCHANGED <<s_path, s_task, s_out, s_scores>>
    /\ UNCHANGED <<s_gemini, batchVars, pipeVars, restVars>>

\* the except branch of both controllers once the video is known: the
\* analysis and the video are marked FAILED with str(e)
PipelineFailed(msg) ==
    /\ s_analysis' = [status |-> "failed", error_message |-> msg]
    /\ s_video' = "failed"
    /\ s_stage' = "done"

\* await self.video_processor.process_video(...)
SingleExtractDone ==
    /\ s_stage = "extract"
    /\ s_stage' = "transcribe"
    /\ UNCHANGED <<s_path, s_task, s_out, s_scores, s_analysis, s_video>>
    /\ UNCHANGED <<s_gemini, batchVars, pipeVars, restVars>>

SingleExtractFails ==
    /\ s_stage = "extract"
    /\ \E msg \in ExtractErrors : PipelineFailed(msg)
    /\ UNCHANGED <<s_path, s_task, s_out, s_scores>>
    /\ UNCHANGED <<s_gemini, batchVars, pipeVars, restVars>>

\* await self.speech_service.transcribe(audio_path)
SingleTranscribeDone ==
    /\ s_stage = "transcribe"
    /\ \E t \in TranscribeOutputs :
         s_out' = [s_out EXCEPT !["transcribe"] = Val(t)]
    /\ s_stage' = "gather"
    /\ UNCHANGED <<s_path, s_task, s_scores, s_analysis, s_video>>
    /\ UNCHANGED <<s_gemini, batchVars, pipeVars, restVars>>

SingleTranscribeFails ==
    /\ s_stage = "transcribe"
    /\ \E msg \in TranscribeErrors :
         /\ s_out' = [s_out EXCEPT !["transcribe"] = Exc(msg)]
         /\ PipelineFailed(msg)
    /\ UNCHANGED <<s_path, s_task, s_scores>>
    /\ UNCHANGED <<s_gemini, batchVars, pipeVars, restVars>>

\* asyncio.gather(..., return_exceptions=True): a task starts
SingleStartTask(t) ==
    /\ s_stage = "gather"
    /\ s_task[t] = "idle"
    /\ s_task' = [s_task EXCEPT ![t] = "running"]
    /\ UNCHANGED <<s_path, s_stage, s_out, s_scores, s_analysis, s_video>>
    /\ UNCHANGED <<s_gemini, batchVars, pipeVars, restVars>>

\* a service returns its dict
SingleTaskReturns(t) ==
    /\ s_stage = "gather"
    /\ s_task[t] = "running"
    /\ \E v \in SingleOutputs(t) : s_out' = [s_out EXCEPT ![t] = Val(v)]
    /\ s_task' = [s_task EXCEPT ![t] = "done"]
    /\ UNCHANGED <<s_path, s_stage, s_scores, s_analysis, s_video>>
    /\ UNCHANGED <<s_gemini, batchVars, pipeVars, restVars>>

\* GeminiService.analyze_technical_depth: Gemini answers and the answer is
\* parsed (with the parser's defaults where it is incomplete or no JSON)
GeminiAnswers ==
    /\ s_stage = "gather"
    /\ s_task["technical"] = "running"
    /\ \E r \in GeminiResponses :
         /\ s_out' = [s_out EXCEPT !["technical"] =
                        Val(ParseGeminiResponse(r))]
         /\ s_gemini' = ResponseKind(r)
    /\ s_task' = [s_task EXCEPT !["technical"] = "done"]
    /\ UNCHANGED <<s_path, s_stage, s_scores, s_analysis, s_video>>
    /\ UNCHANGED <<batchVars, pipeVars, restVars>>

\* a service raises: gather keeps the exception as the task's result
SingleTaskRaises(t) ==
    /\ s_stage = "gather"
    /\ s_task[t] = "running"
    /\ \E msg \in AnalyzerErrors : s_out' = [s_out EXCEPT ![t] = Exc(msg)]
    /\ s_task' = [s_task EXCEPT ![t] = "done"]
    /\ UNCHANGED <<s_path, s_stage, s_scores, s_analysis, s_video>>
    /\ UNCHANGED <<s_gemini, batchVars, pipeVars, restVars>>

\* GeminiService.analyze_technical_depth: Gemini is disabled (no API key)
\* or its call raises; the service returns its rule-based fallback
GeminiFallsBack ==
    /\ s_stage = "gather"
    /\ s_task["technical"] = "running"
    /\ s_out' = [s_out EXCEPT !["technical"] =
                   Val(FallbackAnalysis(s_out["transcribe"].value.transcript))]
    /\ s_gemini' \in {"disabled", "raised"}
    /\ s_task' = [s_task EXCEPT !["technical"] = "done"]
    /\ UNCHANGED <<s_path, s_stage, s_scores, s_analysis, s_video>>
    /\ UNCHANGED <<batchVars, pipeVars, restVars>>

\* the gather has returned; calculate_scores is called on the unpacked
\* results and returns
SingleScoringDone ==
    /\ s_stage = "gather"
    /\ GatherComplete(s_task)
    /\ LET scores == CalculateScores(Unpack(s_out["audio"]),
                                     Unpack(s_out["engagement"]),
                                     Unpack(s_out["technical"]),
                                     Unpack(s_out["visual"]))
       IN /\ ~IsExc(scores)
          /\ s_scores' = scores
    /\ s_stage' = "scored"
    /\ UNCHANGED <<s_path, s_task, s_out, s_analysis, s_video>>
    /\ UNCHANGED <<s_gemini, batchVars, pipeVars, restVars>>

\* the gather has returned; calculate_scores raises and the except branch
\* of the controller runs
SingleScoringRaises ==
    /\ s_stage = "gather"
    /\ GatherComplete(s_task)
    /\ LET scores == CalculateScores(Unpack(s_out["audio"]),
                                     Unpack(s_out["engagement"]),
                                     Unpack(s_out["technical"]),
                                     Unpack(s_out["visual"]))
       IN /\ IsExc(scores)
          /\ s_scores' = scores
          /\ PipelineFailed(scores.msg)
    /\ UNCHANGED <<s_path, s_task, s_out>>
    /\ UNCHANGED <<s_gemini, batchVars, pipeVars, restVars>>

\* the analysis document and the video are written as COMPLETED
SingleSaveCompleted ==
    /\ s_stage = "scored"
    /\ s_analysis' =
         [status |-> "completed",
          transcript |-> s_out["transcribe"].value.transcript,
          transcript_confidence |-> s_out["transcribe"].value.confidence,
          communication |-> s_scores.value.communication,
          engagement |-> s_scores.value.engagement,
          technical_depth |-> s_scores.value.technical_depth,
          clarity |-> s_scores.value.clarity,
          interaction |-> s_scores.value.interaction,
          overall_score |-> s_scores.value.overall]
    /\ s_video' = "completed"
    /\ s_stage' = "done"
    /\ UNCHANGED <<s_path, s_task, s_out, s_scores>>
    /\ UNCHANGED <<s_gemini, batchVars, pipeVars, restVars>>

SingleNext ==
    \/ UploadAndAnalyze
    \/ UploadAndAnalyzeRaises
    \/ StartAnalysis
    \/ SingleExtractDone
    \/ SingleExtractFails
    \/ SingleTranscribeDone
    \/ SingleTranscribeFails
    \/ \E t \in SingleTasks : SingleStartTask(t)
    \/ \E t \in RaisingTasks : SingleTaskReturns(t)
    \/ GeminiAnswers
    \/ \E t \in RaisingTasks : SingleTaskRaises(t)
    \/ GeminiFallsBack
    \/ SingleScoringDone
    \/ SingleScoringRaises
    \/ SingleSaveCompleted

SpecSingle == SingleInit /\ [][SingleNext]_vars

----------------------------------------------------------------------------
(* The scoring functions on the metrics the analyzers can produce *)

\* largest number of frames of a video
MaxFrames == 5

\* frames per second of the videos of the model (sample_interval = int(fps))
FpsValues == {2, 3}

\* the frames VisualService.analyze_video processes: those whose index is a
\* multiple of sample_interval
ProcessedFrames(frame_count, sample_interval) ==
    Cardinality({i \in 0..(frame_count - 1) : i % sample_interval = 0})

\* what the loop of analyze_video has measured on a video
VideoFacts ==
    {f \in [frame_count : 0..MaxFrames,
            fps : FpsValues,
            eye_contact_frames : 0..MaxFrames,
            gesture_count : {0, 1},
            mean_movement : {88, 1500},
            mean_quality : {18, 730}] :
        f.eye_contact_frames <= ProcessedFrames(f.frame_count, f.fps)}

\* VisualService.analyze_video, "Calculate metrics": the dict it returns
\* (mean_movement in 1/1000, mean_quality the Laplacian variance);
\* duration = total_frames / fps is 0 for a video without frames
AnalyzeVideo(f) ==
    IF f.frame_count = 0 THEN Exc("float division by zero")
    ELSE
      LET sample_interval == f.fps
          sampled_frames == f.frame_count \div sample_interval
      IN Val([eye_contact_percentage |->
                 IF sampled_frames > 0
                 THEN Round(f.eye_contact_frames * 10000, sampled_frames)
                 ELSE 0,
              gesture_frequency |->
                 Round(f.gesture_count * f.fps * 6000, f.frame_count),
              pose_stability |-> Max(0, Min(1000, 1000 - f.mean_movement)),
              video_quality_score |-> Min(1000, f.mean_quality * 2)])

\* the dicts analyze_video returns on the videos of the model
VisualResults ==
    {AnalyzeVideo(f).value : f \in {g \in VideoFacts : ~IsExc(AnalyzeVideo(g))}}

\* the dicts GeminiService.analyze_technical_depth can return
TechnicalResults ==
    {ParseGeminiResponse(r) : r \in GeminiResponses}
    \cup {FallbackAnalysis(t.transcript) : t \in TranscribeOutputs}

\* a technical_data without "score": what a caller other than the
\* pipelines may pass to _calculate_technical_score
TechnicalWithoutScore ==
    [domain |-> "mathematics", concept_count |-> 6, technical_terms |-> 6,
     concept_correctness_score |-> 700, depth_score |-> 400]

\* what ChunkAnalyzer.analyze_chunk passes to _calculate_chunk_scores
ChunkInputs ==
    [audio_metrics : AudioOutputs \cup {DefaultAudioMetrics},
     engagement_data : EngagementOutputs \cup {DefaultEngagement},
     visual_data : VisualResults \cup {DefaultVisual}]

\* what the single-video controllers pass to calculate_scores
VideoInputs ==
    [audio_metrics : AudioOutputs \cup {EmptyDict},
     engagement_data : EngagementOutputs \cup {EmptyDict},
     technical_data : TechnicalResults \cup {TechnicalWithoutScore},
     visual_data : VisualResults \cup {EmptyDict}]

ScoreInit ==
    /\ sc_mode = "input"
    /\ sc_in \in ChunkInputs \cup VideoInputs
    /\ sc_out = Pending
    /\ BatchIdle
    /\ PipeIdle
    /\ SingleIdle
    /\ WorkerIdle
    /\ FetchIdle
    /\ PoolIdle
    /\ StoreIdle
    /\ CtxIdle

\* self._calculate_chunk_scores(audio_metrics, engagement_data, visual_data)
ScoreChunk ==
    /\ sc_mode = "input"
    /\ sc_in \in ChunkInputs
    /\ sc_out' = Val(CalculateChunkScores(sc_in.audio_metrics,
                                          sc_in.engagement_data,
                                          sc_in.visual_data))
    /\ sc_mode' = "chunk"
    /\ UNCHANGED <<sc_in, batchVars, pipeVars, singleVars, workerVars, fetchVars, poolVars, storeVars, ctxVars>>

\* self.scoring_service.calculate_scores(...)
ScoreVideo ==
    /\ sc_mode = "input"
    /\ sc_in \in VideoInputs
    /\ sc_out' = CalculateScores(sc_in.audio_metrics, sc_in.engagement_data,
                                 sc_in.technical_data, sc_in.visual_data)
    /\ sc_mode' = "video"
    /\ UNCHANGED <<sc_in, batchVars, pipeVars, singleVars, workerVars, fetchVars, poolVars, storeVars, ctxVars>>

ScoreNext ==
    \/ ScoreChunk
    \/ ScoreVideo

SpecScoring == ScoreInit /\ [][ScoreNext]_vars

----------------------------------------------------------------------------
(* The worker processes: which ChunkAnalyzer each execution of
   analyze_chunk_worker uses *)

\* the processes of ProcessPoolExecutor(max_workers)
Processes == 1..max_workers

\* a process that executes no call
Idle == [job |-> 0, stage |-> "idle", analyzer |-> <<>>]

\* mutant of NewAnalyzer: one ChunkAnalyzer, built once, serves every call
SharedAnalyzer(process, job) ==
    [process |-> 0, job |-> 0, speech_model |-> <<0, 0>>]

\* analyzer = ChunkAnalyzer(): an object of the address space of the
\* process, built by this execution, with its own service instances (the
\* Whisper model of its SpeechService among them)
NewAnalyzer(process, job) ==
    [process |-> process, job |-> job, speech_model |-> <<process, job>>]

WorkerInit ==
    /\ w_queue \in {[i \in 1..n |-> i] : n \in 1..MaxChunks}
    /\ w_proc = [p \in Processes |-> Idle]
    /\ w_done = {}
    /\ BatchIdle
    /\ PipeIdle
    /\ SingleIdle
    /\ ScoreIdle
    /\ FetchIdle
    /\ PoolIdle
    /\ StoreIdle
    /\ CtxIdle

\* an idle process takes the call at the head of the queue
TakeCall(p) ==
    /\ w_queue # <<>>
    /\ w_proc[p] = Idle
    /\ w_proc' = [w_proc EXCEPT ![p] = [job |-> Head(w_queue),
                                        stage |-> "entered",
                                        analyzer |-> <<>>]]
    /\ w_queue' = Tail(w_queue)
    /\ UNCHANGED <<w_done, batchVars, pipeVars, singleVars, scoreVars, fetchVars, poolVars, storeVars, ctxVars>>

\* analyze_chunk_worker: analyzer = ChunkAnalyzer()
ConstructChunkAnalyzer(p) ==
    /\ w_proc[p].stage = "entered"
    /\ w_proc' = [w_proc EXCEPT ![p] =
                    [@ EXCEPT !.stage = "analyzing",
                              !.analyzer = NewAnalyzer(p, w_proc[p].job)]]
    /\ UNCHANGED <<w_queue, w_done, batchVars, pipeVars, singleVars, scoreVars, fetchVars, poolVars, storeVars, ctxVars>>

\* ChunkAnalyzer() raises: the call ends with the exception
ConstructChunkAnalyzerRaises(p) ==
    /\ w_proc[p].stage = "entered"
    /\ w_done' = w_done \cup {w_proc[p].job}
    /\ w_proc' = [w_proc EXCEPT ![p] = Idle]
    /\ UNCHANGED <<w_queue, batchVars, pipeVars, singleVars, scoreVars, fetchVars, poolVars, storeVars, ctxVars>>

\* loop.run_until_complete(analyzer.analyze_chunk(...)) returns; the
\* analyzer goes out of scope
WorkerReturns(p) ==
    /\ w_proc[p].stage = "analyzing"
    /\ w_done' = w_done \cup {w_proc[p].job}
    /\ w_proc' = [w_proc EXCEPT ![p] = Idle]
    /\ UNCHANGED <<w_queue, batchVars, pipeVars, singleVars, scoreVars, fetchVars, poolVars, storeVars, ctxVars>>

WorkerNext ==
    \/ \E p \in Processes : TakeCall(p)
    \/ \E p \in Processes : ConstructChunkAnalyzer(p)
    \/ \E p \in Processes : ConstructChunkAnalyzerRaises(p)
    \/ \E p \in Processes : WorkerReturns(p)

SpecWorkers == WorkerInit /\ [][WorkerNext]_vars

----------------------------------------------------------------------------
(* SpecFair and SpecHang: process_batch under fair scheduling, without and
   with a pipeline that never terminates *)

\* what a worker ends with in these specifications: the run in which nothing
\* raises, a failed transcription, or an exception of the worker itself
LiveOutcomes ==
    {AnalyzeChunkWorker(AllGood),
     AnalyzeChunkWorker([AllGood EXCEPT
                           !.transcribe = Exc(CHOOSE m \in TranscribeErrors : TRUE)]),
     AnalyzeChunkWorker([AllGood EXCEPT
                           !.init = Exc(CHOOSE m \in WorkerErrors : TRUE)])}

\* analyze_chunk_worker ends, unless its pipeline is one that never does
FinishUnlessHung(i) ==
    /\ i \notin hung
    /\ FinishWith(i, LiveOutcomes)

\* a stage of the pipeline of chunk i blocks for ever (no stage and no await
\* of the code has a timeout)
WorkerHangs(i) ==
    /\ i \in running
    /\ hung = {}
    /\ hung' = {i}
    /\ UNCHANGED <<crashed, batchVars, pipeVars, singleVars, scoreVars,
                   workerVars, fetchVars, storeVars, ctxVars>>

NextFair ==
    \/ UploadChunk
    \/ UploadFails
    \/ SubmitChunk
    \/ StartWorker
    \/ \E i \in 1..MaxChunks : FinishUnlessHung(i)
    \/ AwaitFuture
    \/ SaveBatchResults
    \/ BuildResponse

NextHang ==
    \/ NextFair
    \/ \E i \in 1..MaxChunks : WorkerHangs(i)

\* the event loop runs every coroutine that can go on, the executor hands
\* every queued call to an idle process, and a process goes on with its call
Fairness ==
    /\ WF_vars(UploadChunk)
    /\ WF_vars(UploadFails)
    /\ WF_vars(SubmitChunk)
    /\ WF_vars(StartWorker)
    /\ \A i \in 1..MaxChunks : WF_vars(FinishUnlessHung(i))
    /\ WF_vars(AwaitFuture)
    /\ WF_vars(SaveBatchResults)
    /\ WF_vars(BuildResponse)

SpecFair == Init /\ [][NextFair]_vars /\ Fairness

SpecHang == Init /\ [][NextHang]_vars /\ Fairness

----------------------------------------------------------------------------
(* SpecStore: the requests that read and write the videos and
   analysis_results collections, interleaved at their awaits *)

MaxVideos == 2
MaxAnalyses == 3
MaxTasks == 2

VideoIds == 1..MaxVideos

\* the video has a document in the videos collection
Exists(v) == d_videos[v] \in {"uploaded", "processing", "completed", "failed"}

\* update_one({"_id": v}, {"$set": {"status": st}}): no document, no change
UpdateVideo(videos_, v, st) ==
    IF videos_[v] \in {"uploaded", "processing", "completed", "failed"}
    THEN [videos_ EXCEPT ![v] = st]
    ELSE videos_

\* update_one({"_id": id}, {"$set": {"status": st, ...}}) on analysis_results
UpdateAnalysis(docs, id, st) ==
    {IF a.id = id THEN [a EXCEPT !.status = st] ELSE a : a \in docs}

\* insert_one of an analysis document; created_at is the time of the insert
NewAnalysis(v, st) ==
    [id |-> d_next, video_id |-> v, status |-> st, created_at |-> d_next]

\* the documents of analysis_results with this video_id
AnalysesOf(v) == {a \in d_analyses : a.video_id = v}

\* None, the answer of find_one when no document matches
NoDocument == [id |-> 0]

\* find_one({"video_id": v}) has no sort: any matching document can be the
\* one returned, None when there is none
FindOneByVideo(v) ==
    IF AnalysesOf(v) = {} THEN {NoDocument} ELSE AnalysesOf(v)

StoreInit ==
    /\ d_videos = [v \in VideoIds |-> "none"]
    /\ d_analyses = {}
    /\ d_next = 1
    /\ d_tasks = {}
    /\ d_deleting = {}
    /\ d_deleted = {}
    /\ d_got = Pending
    /\ BatchIdle
    /\ PipeIdle
    /\ SingleIdle
    /\ ScoreIdle
    /\ WorkerIdle
    /\ FetchIdle
    /\ PoolIdle
    /\ CtxIdle

StoreRest ==
    UNCHANGED <<batchVars, pipeVars, singleVars, scoreVars, workerVars,
                fetchVars, poolVars, ctxVars>>

\* VideoController.upload_video: the document is inserted as "uploaded"
UploadVideo(v) ==
    /\ d_videos[v] = "none"
    /\ \A u \in 1..(v - 1) : d_videos[u] # "none"
    /\ d_videos' = [d_videos EXCEPT ![v] = "uploaded"]
    /\ UNCHANGED <<d_analyses, d_next, d_tasks, d_deleting, d_deleted, d_got>>
    /\ StoreRest

\* CompleteAnalysisController.upload_and_analyze, step 1: the video document
\* is inserted as "processing"; the pipeline then runs inside the request
CompleteInsertVideo(v) ==
    /\ d_videos[v] = "none"
    /\ \A u \in 1..(v - 1) : d_videos[u] # "none"
    /\ Cardinality(d_tasks) < MaxTasks
    /\ d_videos' = [d_videos EXCEPT ![v] = "processing"]
    /\ d_tasks' = d_tasks \cup {[kind |-> "complete", video_id |-> v,
                                 analysis_id |-> 0]}
    /\ UNCHANGED <<d_analyses, d_next, d_deleting, d_deleted, d_got>>
    /\ StoreRest

\* upload_and_analyze: the pipeline ended; the analysis document is inserted
\* as "completed" and the video updated
CompleteSaves(t) ==
    /\ t \in d_tasks
    /\ t.kind = "complete"
    /\ d_next <= MaxAnalyses
    /\ d_analyses' = d_analyses \cup {NewAnalysis(t.video_id, "completed")}
    /\ d_next' = d_next + 1
    /\ d_videos' = UpdateVideo(d_videos, t.video_id, "completed")
    /\ d_tasks' = d_tasks \ {t}
    /\ UNCHANGED <<d_deleting, d_deleted, d_got>>
    /\ StoreRest

\* upload_and_analyze: a stage raised; the except branch updates the video
\* and inserts an error document
CompleteFails(t) ==
    /\ t \in d_tasks
    /\ t.kind = "complete"
    /\ d_next <= MaxAnalyses
    /\ d_videos' = UpdateVideo(d_videos, t.video_id, "failed")
    /\ d_analyses' = d_analyses \cup {NewAnalysis(t.video_id, "failed")}
    /\ d_next' = d_next + 1
    /\ d_tasks' = d_tasks \ {t}
    /\ UNCHANGED <<d_deleting, d_deleted, d_got>>
    /\ StoreRest

\* AnalysisController.start_analysis: find_one finds the video
StartAnalysisFind(v) ==
    /\ Exists(v)
    /\ Cardinality(d_tasks) < MaxTasks
    /\ d_tasks' = d_tasks \cup {[kind |-> "start", video_id |-> v,
                                 analysis_id |-> 0]}
    /\ UNCHANGED <<d_videos, d_analyses, d_next, d_deleting, d_deleted, d_got>>
    /\ StoreRest

\* start_analysis: the analysis document is inserted as "processing", the
\* video updated, and _run_analysis_pipeline scheduled
StartAnalysisInsert(t) ==
    /\ t \in d_tasks
    /\ t.kind = "start"
    /\ d_next <= MaxAnalyses
    /\ d_analyses' = d_analyses \cup {NewAnalysis(t.video_id, "processing")}
    /\ d_next' = d_next + 1
    /\ d_videos' = UpdateVideo(d_videos, t.video_id, "processing")
    /\ d_tasks' = (d_tasks \ {t}) \cup
                     {[kind |-> "background", video_id |-> t.video_id,
                       analysis_id |-> d_next]}
    /\ UNCHANGED <<d_deleting, d_deleted, d_got>>
    /\ StoreRest

\* _run_analysis_pipeline ends: both documents are updated, to "completed"
\* or, from the except branch, to "failed"
PipelineEnds(t) ==
    /\ t \in d_tasks
    /\ t.kind = "background"
    /\ \E st \in {"completed", "failed"} :
         /\ d_analyses' = UpdateAnalysis(d_analyses, t.analysis_id, st)
         /\ d_videos' = UpdateVideo(d_videos, t.video_id, st)
    /\ d_tasks' = d_tasks \ {t}
    /\ UNCHANGED <<d_next, d_deleting, d_deleted, d_got>>
    /\ StoreRest

\* VideoController.delete_video: find_one finds the video
DeleteVideoFind(v) ==
    /\ Exists(v)
    /\ v \notin d_deleting
    /\ d_deleting' = d_deleting \cup {v}
    /\ UNCHANGED <<d_videos, d_analyses, d_next, d_tasks, d_deleted, d_got>>
    /\ StoreRest

\* delete_video: the file, the video document and the analysis documents of
\* the video are removed; True is returned
DeleteVideoRemove(v) ==
    /\ v \in d_deleting
    /\ d_videos' = [d_videos EXCEPT ![v] = "deleted"]
    /\ d_analyses' = {a \in d_analyses : a.video_id # v}
    /\ d_deleting' = d_deleting \ {v}
    /\ d_deleted' = d_deleted \cup {v}
    /\ UNCHANGED <<d_next, d_tasks, d_got>>
    /\ StoreRest

\* AnalysisController.get_analysis_by_video
GetAnalysisByVideo(v) ==
    /\ d_got = Pending
    /\ d_videos[v] # "none"
    /\ \E r \in FindOneByVideo(v) :
         d_got' = [kind |-> "answer", video_id |-> v, result |-> r,
                   matching |-> AnalysesOf(v)]
    /\ UNCHANGED <<d_videos, d_analyses, d_next, d_tasks, d_deleting, d_deleted>>
    /\ StoreRest

StoreNext ==
    \/ \E v \in VideoIds : UploadVideo(v)
    \/ \E v \in VideoIds : CompleteInsertVideo(v)
    \/ \E t \in d_tasks : CompleteSaves(t)
    \/ \E t \in d_tasks : CompleteFails(t)
    \/ \E v \in VideoIds : StartAnalysisFind(v)
    \/ \E t \in d_tasks : StartAnalysisInsert(t)
    \/ \E t \in d_tasks : PipelineEnds(t)
    \/ \E v \in VideoIds : DeleteVideoFind(v)
    \/ \E v \in VideoIds : DeleteVideoRemove(v)
    \/ \E v \in VideoIds : GetAnalysisByVideo(v)

SpecStore == StoreInit /\ [][StoreNext]_vars

----------------------------------------------------------------------------
(* SpecContext: BatchProcessor.process_batch as a function of its arguments
   and of what the workers end with *)

\* the context of a request: absent, empty, or a text
Contexts == {"None", "", "lecture on heaps"}

\* mutant of WorkerArguments: the context travels with the chunk
WorkerArgumentsWithContext(chunk, context) ==
    [k \in DOMAIN chunk \cup {"context"} |->
        IF k = "context" THEN context ELSE chunk[k]]

\* loop.run_in_executor(executor, analyze_chunk_worker, chunk): what the
\* worker is given
WorkerArguments(chunk, context) == chunk

\* analyzer.analyze_chunk(chunk['video_path'], chunk['chunk_id'])
AnalyzerArguments(arguments) ==
    [video_path |-> arguments.video_path, chunk_id |-> arguments.chunk_id]

\* the body of the await loop for one chunk
ResultFor(chunk, outcome) ==
    IF outcome.kind = "value" THEN FormatResult(chunk, outcome.value)
    ELSE FormatErrorResult(chunk, outcome.msg)

\* process_batch(chunks, context), the workers ending with the given outcomes
ProcessBatch(chunks_, context, outcomes) ==
    [calls |-> [i \in 1..Len(chunks_) |-> WorkerArguments(chunks_[i], context)],
     results |-> [i \in 1..Len(chunks_) |-> ResultFor(chunks_[i], outcomes[i])]]

\* the chunks of the call
ContextChunks == [i \in 1..Len(c_outcomes) |-> ChunkOf(i)]

ContextInit ==
    /\ c_stage = "ready"
    /\ c_context \in Contexts
    /\ c_outcomes \in UNION {[1..n -> LiveOutcomes] : n \in 1..MaxChunks}
    /\ c_calls = <<>>
    /\ c_results = <<>>
    /\ BatchIdle
    /\ PipeIdle
    /\ SingleIdle
    /\ ScoreIdle
    /\ WorkerIdle
    /\ FetchIdle
    /\ PoolIdle
    /\ StoreIdle

\* BatchProcessor.process_batch, from call to return
RunProcessBatch ==
    /\ c_stage = "ready"
    /\ LET out == ProcessBatch(ContextChunks, c_context, c_outcomes) IN
         /\ c_calls' = out.calls
         /\ c_results' = out.results
    /\ c_stage' = "done"
    /\ UNCHANGED <<c_context, c_outcomes, batchVars, pipeVars, singleVars,
                   scoreVars, workerVars, fetchVars, poolVars, storeVars>>

ContextNext == RunProcessBatch

SpecContext == ContextInit /\ [][ContextNext]_vars

----------------------------------------------------------------------------
(* SpecCrash: process_batch when a worker process dies *)

\* concurrent.futures.process.BrokenProcessPool, an Exception: what the
\* executor sets on every future not yet done once a process has died
BrokenProcessPool ==
    Exc("A process in the process pool was terminated abruptly while the future was running or pending.")

\* the executor marks itself broken: every future that is not done, running
\* or queued, gets BrokenProcessPool
FailPending(i) ==
    [j \in DOMAIN future |->
        IF future[j] = Pending THEN BrokenProcessPool ELSE future[j]]

\* the process running chunk i is killed or crashes; the executor fails the
\* pending futures, drops its queue and terminates the other processes
WorkerCrashes(i) ==
    /\ i \in running
    /\ crashed = 0
    /\ crashed' = i
    /\ future' = FailPending(i)
    /\ running' = {j \in running : future'[j] = Pending}
    /\ queue' = SelectSeq(queue, LAMBDA j : future'[j] = Pending)
    /\ UNCHANGED <<awaited, overtaken, pc, files, videos, chunks, submitted,
                   results, batch_doc, response>>
    /\ UNCHANGED <<hung, pipeVars, singleVars, scoreVars, workerVars,
                   fetchVars, storeVars, ctxVars>>

\* run_in_executor on an executor that is not broken
SubmitUnlessBroken ==
    /\ crashed = 0
    /\ SubmitChunk

\* run_in_executor on a broken executor: submit raises BrokenProcessPool
\* outside the try of the await loop, and process_batch raises
SubmitToBrokenPool ==
    /\ pc = "submit"
    /\ crashed # 0
    /\ pc' = "raised"
    /\ UNCHANGED <<awaited, overtaken, files, videos, chunks, submitted, queue,
                   running, future, results, batch_doc, response>>
    /\ UNCHANGED <<pipeVars, singleVars, restVars>>

NextCrash ==
    \/ UploadChunk
    \/ UploadFails
    \/ SubmitUnlessBroken
    \/ SubmitToBrokenPool
    \/ StartWorker
    \/ \E i \in 1..MaxChunks : FinishUnlessHung(i)
    \/ \E i \in 1..MaxChunks : WorkerCrashes(i)
    \/ AwaitFuture
    \/ SaveBatchResults
    \/ BuildResponse

SpecCrash == Init /\ [][NextCrash]_vars

----------------------------------------------------------------------------
(* Properties of Spec *)

\* BatchProcessor.process_batch has returned its list
BatchReturned == pc \in {"save", "respond", "done"}

\* C1: once process_batch has returned, it holds exactly one result per
\* submitted chunk: as many results as chunks, and every chunk_id exactly
\* once, whatever each worker did (success, failed dict, exception); while it
\* runs, no chunk_id is ever there twice.
C1_OneResultPerChunk ==
    /\ \A k1, k2 \in 1..Len(results) :
         results[k1].chunk_id = results[k2].chunk_id => k1 = k2
    /\ BatchReturned =>
         /\ Len(results) = N
         /\ Len(chunks) = N
         /\ \A i \in 1..N :
              Cardinality({k \in 1..Len(results) :
                             results[k].chunk_id = chunks[i].chunk_id}) = 1

\* a batch of several chunks has returned in which one worker raised, one
\* pipeline reported a failure and one succeeded
C1_Witness ==
    /\ pc = "done"
    /\ N >= 3
    /\ \E i, j, k \in 1..N :
         /\ future[i].kind = "exception"
         /\ future[j].kind = "value" /\ future[j].value.status = "failed"
         /\ future[k].kind = "value" /\ future[k].value.status = "success"

\* the outcome of future k, as a status
FutureStatus(k) ==
    IF future[k].kind = "value" THEN future[k].value.status ELSE "failed"

\* C2: the k-th element of the list is the result of the k-th submitted
\* chunk, in every state of the await loop and after it, whatever the order
\* the workers finished in.
C2_SubmissionOrder ==
    \A k \in 1..Len(results) :
        /\ results[k].chunk_id = chunks[k].chunk_id
        /\ results[k].video_id = chunks[k].video_id
        /\ results[k].status = FutureStatus(k)

\* the batch has returned although a chunk finished before an earlier one
C2_Witness ==
    /\ pc = "done"
    /\ overtaken
    /\ Len(results) >= 2

\* C3: in the response and in the persisted batch document, the two counts
\* add up to total_chunks, and successful_chunks is the number of results
\* with status "success".
C3_CountsAddUp ==
    /\ pc = "done" =>
         /\ response.successful_chunks + response.failed_chunks
              = response.total_chunks
         /\ response.successful_chunks
              = Cardinality({k \in 1..Len(response.results) :
                               response.results[k].status = "success"})
    /\ \A d \in 1..Len(batch_doc) :
         /\ batch_doc[d].successful_chunks + batch_doc[d].failed_chunks
              = batch_doc[d].total_chunks
         /\ batch_doc[d].successful_chunks
              = Cardinality({k \in 1..Len(batch_doc[d].results) :
                               batch_doc[d].results[k].status = "success"})

\* a response with both successful and failed chunks, and its document
C3_Witness ==
    /\ pc = "done"
    /\ Len(batch_doc) = 1
    /\ response.successful_chunks > 0
    /\ response.failed_chunks > 0

\* C4: the status of the response is decided by the two counts: "completed"
\* when nothing failed, "failed" when nothing succeeded (and there are
\* chunks), "partial" otherwise; there is no fourth value.
C4_StatusFromCounts ==
    pc = "done" =>
        /\ response.status \in {"completed", "failed", "partial"}
        /\ response.failed_chunks = 0 => response.status = "completed"
        /\ (response.successful_chunks = 0 /\ response.total_chunks > 0)
              => response.status = "failed"
        /\ (response.failed_chunks > 0 /\ response.successful_chunks > 0)
              => response.status = "partial"

\* a batch in which every chunk failed
C4_Witness ==
    /\ pc = "done"
    /\ response.total_chunks >= 2
    /\ response.successful_chunks = 0
    /\ response.status = "failed"

C6_FailureIsolation ==
    /\ pc = "raised" => Len(chunks) < N
    /\ \A k \in 1..Len(results) :
         /\ future[k].kind = "exception" =>
              /\ results[k].status = "failed"
              /\ results[k].error_message = future[k].msg
         /\ (future[k].kind = "value" /\ future[k].value.status = "success") =>
              /\ results[k].status = "success"
              /\ results[k].transcript = future[k].value.transcript
              /\ results[k].overall_score = future[k].value.scores.overall
              /\ results[k].communication.score
                   = future[k].value.scores.communication
              /\ results[k].engagement.score
                   = future[k].value.scores.engagement
              /\ results[k].clarity.score = future[k].value.scores.clarity
              /\ results[k].interaction.score
                   = future[k].value.scores.interaction
              /\ results[k].communication.speaking_rate
                   = future[k].value.audio_metrics.speaking_rate
         /\ (future[k].kind = "value" /\ future[k].value.status = "failed") =>
              /\ results[k].status = "failed"
              /\ results[k].error_message = future[k].value.error

\* the batch has returned with a chunk whose worker raised, between two
\* chunks that succeeded
C6_Witness ==
    /\ pc = "done"
    /\ \E i, j, k \in 1..N :
         /\ i < j /\ j < k
         /\ future[j].kind = "exception"
         /\ results[i].status = "success"
         /\ results[k].status = "success"
    /\ response.status = "partial"

----------------------------------------------------------------------------
(* Properties of SpecPipeline *)

\* C7: the stages of one chunk are strictly ordered: transcription is called
\* only after extraction has returned, an analyzer only after transcription
\* has returned, scoring only after every analyzer has finished (returned or
\* raised); no analyzer is pending or running once scoring has started.
C7_StageOrder ==
    /\ "transcribe" \in p_invoked => "process_video" \in p_completed
    /\ \A a \in Analyzers : a \in p_invoked => "transcribe" \in p_completed
    /\ "scoring" \in p_invoked =>
         /\ Analyzers \subseteq p_completed
         /\ \A a \in Analyzers : p_task[a] = "done"
    /\ p_stage = "scoring" => \A a \in Analyzers : p_task[a] = "done"
    /\ p_completed \subseteq p_invoked

\* scoring runs after a fan-out in which one analyzer raised
C7_Witness ==
    /\ p_stage = "scoring"
    /\ IsExc(p_out["engagement"])
    /\ ~IsExc(p_out["audio"])
    /\ ~IsExc(p_out["visual"])

\* every metric field and every score of a ChunkAnalysisResult is zero
ZeroMetrics(r) ==
    /\ \A k \in DOMAIN r.communication : r.communication[k] = 0
    /\ \A k \in DOMAIN r.engagement : r.engagement[k] = 0
    /\ \A k \in DOMAIN r.clarity : r.clarity[k] = 0
    /\ \A k \in DOMAIN r.interaction : r.interaction[k] = 0
    /\ r.overall_score = 0
    /\ r.transcript_confidence = 0

\* C8: when extraction or transcription fails, no analyzer and no scoring is
\* ever called for the chunk, and its formatted result is "failed" with every
\* metric and score zero and an empty transcript.
C8_FatalStageFailure ==
    p_data.failed \in {"extract", "transcribe"} =>
        /\ p_invoked \cap (Analyzers \cup {"scoring"}) = {}
        /\ p_stage \in {"returned", "formatted"}
        /\ p_raw.value.status = "failed"
        /\ p_stage = "formatted" =>
             /\ p_result.status = "failed"
             /\ ZeroMetrics(p_result)
             /\ p_result.transcript = ""

\* a chunk whose transcription failed has been formatted
C8_Witness ==
    /\ p_stage = "formatted"
    /\ p_data.failed = "transcribe"
    /\ p_result.error_message = "whisper failed"

\* the metrics of each analyzer, as they stand in a ChunkAnalysisResult
AudioOf(r) == [k \in AudioKeys |-> r.communication[k]]
EngagementOf(r) ==
    [k \in EngagementKeys \cup {"rhetorical_questions", "direct_address_count"}
       |-> r.engagement[k]]
VisualOf(r) ==
    [eye_contact_percentage |-> r.clarity.eye_contact_percentage,
     gesture_frequency |-> r.interaction.gesture_frequency,
     pose_stability |-> r.interaction.pose_stability,
     video_quality_score |-> r.clarity.video_quality_score]

\* what the result must show for an analyzer: its own output, or its default
Expected(a, default) == IF IsExc(p_out[a]) THEN default ELSE p_out[a].value

\* C9: after extraction and transcription succeeded, whatever subset of the
\* analyzers raised, every analyzer was called, the chunk is "success", the
\* metrics of an analyzer that raised are its default record and the metrics
\* of the others are the values they returned.
C9_AnalyzerFallback ==
    (p_stage \in {"scoring", "returned", "formatted"} /\ p_data.failed = "none")
    =>
        /\ Analyzers \subseteq p_invoked
        /\ p_stage \in {"returned", "formatted"} =>
             /\ p_raw.value.status = "success"
             /\ p_raw.value.audio_metrics
                  = Expected("audio", DefaultAudioMetrics)
             /\ p_raw.value.engagement_data
                  = Expected("engagement", DefaultEngagement)
             /\ p_raw.value.visual_data = Expected("visual", DefaultVisual)
        /\ p_stage = "formatted" =>
             /\ p_result.status = "success"
             /\ AudioOf(p_result) = Expected("audio", DefaultAudioMetrics)
             /\ EngagementOf(p_result)
                  = Expected("engagement", DefaultEngagement)
             /\ VisualOf(p_result) = Expected("visual", DefaultVisual)

\* a formatted chunk whose audio and vision analyzers raised while the
\* engagement analyzer returned its values
C9_Witness ==
    /\ p_stage = "formatted"
    /\ p_data.failed = "none"
    /\ IsExc(p_out["audio"])
    /\ IsExc(p_out["visual"])
    /\ ~IsExc(p_out["engagement"])
    /\ p_result.engagement.qna_pairs = 12

----------------------------------------------------------------------------
(* Properties of SpecSingle *)

\* the fan-out analyzers of the single-video mode that raised
FailedAnalyzers ==
    {t \in {"audio", "engagement", "technical", "visual"} : IsExc(s_out[t])}

\* C10: in the single-video mode, when exactly one fan-out analyzer raises
\* after the transcription succeeded, the pipeline goes on to scoring with a
\* default in its place and the analysis ends "completed", not "failed".
C10_AnalyzerFailureTolerated ==
    (/\ s_stage = "done"
     /\ ~IsExc(s_out["transcribe"]) /\ s_out["transcribe"] # Pending
     /\ Cardinality(FailedAnalyzers) = 1)
    => /\ s_analysis.status = "completed"
       /\ s_video = "completed"
       /\ ~IsExc(s_scores)

\* C11: the scoring step never fails: whatever the pipeline hands to
\* calculate_scores, the values standing for failed analyzers included, it
\* returns a score record and raises nothing.
C11_ScoringNeverFails ==
    s_stage \in {"scored", "done"} /\ GatherComplete(s_task)
        => s_scores.kind = "value"

----------------------------------------------------------------------------
(* Properties of SpecScoring *)

\* a score of the 0-100 scale, in 1/100
InRange(x) == 0 <= x /\ x <= 10000

\* C12: every category score and the overall score lies in [0,100] for
\* every metrics input the pipelines can pass to scoring, and the eye-contact
\* sub-signal of the weighted sums lies in [0,1].
C12_ScoresInRange ==
    (sc_mode \in {"chunk", "video"} /\ ~IsExc(sc_out)) =>
        /\ \A k \in DOMAIN sc_out.value : InRange(sc_out.value[k])
        /\ InRange(sc_in.visual_data.eye_contact_percentage)

\* the sum of the values of a record of weights
RECURSIVE WeightSum(_)
WeightSum(w) ==
    IF DOMAIN w = {} THEN 0
    ELSE LET k == CHOOSE x \in DOMAIN w : TRUE
         IN w[k] + WeightSum([j \in DOMAIN w \ {k} |-> w[j]])

\* the category scores of a score record, without the overall score
Categories(scores) == {scores[k] : k \in DOMAIN scores \ {"overall"}}

\* C13: the category weights of each mode sum to 1.0 (five weights of the
\* single-video mode, four of the batch mode) and so do the sub-signal
\* weights inside each category formula; hence every overall score lies
\* between the smallest and the largest category score.
C13_WeightsSumToOne ==
    /\ WEIGHT_COMMUNICATION + WEIGHT_ENGAGEMENT + WEIGHT_TECHNICAL_DEPTH
         + WEIGHT_CLARITY + WEIGHT_INTERACTION = 100
    /\ CHUNK_WEIGHT_COMMUNICATION + CHUNK_WEIGHT_ENGAGEMENT
         + CHUNK_WEIGHT_CLARITY + CHUNK_WEIGHT_INTERACTION = 100
    /\ \A w \in {CommunicationWeights, EngagementWeights, ClarityWeights,
                 InteractionWeights, TechnicalWeights} : WeightSum(w) = 100
    /\ (sc_mode \in {"chunk", "video"} /\ ~IsExc(sc_out)) =>
         /\ \E c \in Categories(sc_out.value) : c <= sc_out.value.overall
         /\ \E c \in Categories(sc_out.value) : c >= sc_out.value.overall

\* both scorers have produced an overall score strictly between two of its
\* category scores
C13_Witness ==
    /\ sc_mode = "video"
    /\ ~IsExc(sc_out)
    /\ \E c \in Categories(sc_out.value) : c < sc_out.value.overall
    /\ \E c \in Categories(sc_out.value) : c > sc_out.value.overall
    /\ Cardinality(Categories(sc_out.value)) = 5

\* (0.3 * concept_score + 0.4 * concept_correctness + 0.3 * depth_score) * 100
\* in 1/100, with concept_score = min(1, concept_count / 20) for the three
\* scientific domains and min(1, concept_count / 10) otherwise
EngineFormula(t) ==
    LET per_concept == IF t.domain \in {"computer_science", "mathematics",
                                        "science"} THEN 5 ELSE 10
        concept_score == Min(100, t.concept_count * per_concept)
    IN Round(30 * concept_score * 10 + 40 * t.concept_correctness_score
             + 30 * t.depth_score, 10)

\* the technical_data of a state in which calculate_scores has returned
TechnicalScored == sc_mode = "video" /\ ~IsExc(sc_out)

C15_DegradedModeUsesFormula ==
    (/\ s_gemini \in {"disabled", "raised", "unparseable", "incomplete"}
     /\ s_stage \in {"scored", "done"}
     /\ s_scores.kind = "value")
    => s_scores.value.technical_depth
         = EngineFormula(s_out["technical"].value)

----------------------------------------------------------------------------
(* Further properties of SpecPipeline *)

\* the functions a chunk pipeline calls
ChunkCalls == {"process_video", "transcribe", "scoring"} \cup Analyzers

\* C16: a chunk pipeline of a batch never calls the LLM technical-depth
\* analyzer: its calls are extraction, transcription, the audio, engagement
\* and vision analyzers and scoring; the scores of a successful chunk have no
\* technical-depth category and the overall score is
\* 0.25*communication + 0.25*engagement + 0.30*clarity + 0.20*interaction.
C16_NoLLMInBatch ==
    /\ p_invoked \subseteq ChunkCalls
    /\ "technical" \notin p_invoked
    /\ Analyzers = {"audio", "engagement", "visual"}
    /\ (p_stage \in {"returned", "formatted"} /\ p_raw.kind = "value"
        /\ p_raw.value.status = "success") =>
         LET sc == p_raw.value.scores
         IN /\ DOMAIN sc = {"communication", "engagement", "clarity",
                            "interaction", "overall"}
            /\ sc.overall = Round(25 * sc.communication + 25 * sc.engagement
                                  + 30 * sc.clarity + 20 * sc.interaction,
                                  100)
            /\ p_stage = "formatted" =>
                 /\ p_result.overall_score = sc.overall
                 /\ "technical_depth" \notin DOMAIN p_result

\* a successful chunk has been formatted whose analyzers all returned and
\* whose four category scores are not all the same
C16_Witness ==
    /\ p_stage = "formatted"
    /\ p_result.status = "success"
    /\ \A a \in Analyzers : ~IsExc(p_out[a])
    /\ p_result.overall_score > 0
    /\ p_result.clarity.score # p_result.interaction.score

----------------------------------------------------------------------------
(* Properties of SpecWorkers *)

\* the processes whose call runs the pipeline on an analyzer
Analyzing == {p \in Processes : w_proc[p].stage = "analyzing"}

\* C17: no ChunkAnalyzer and no model instance is used by two chunk
\* pipelines in flight at the same time: the analyzer a pipeline runs on was
\* built by its own worker execution, in its own process, and its Whisper
\* model belongs to no other analyzer.
C17_WorkerIsolation ==
    /\ \A p, q \in Analyzing :
         p # q => /\ w_proc[p].analyzer # w_proc[q].analyzer
                  /\ w_proc[p].analyzer.speech_model
                       # w_proc[q].analyzer.speech_model
    /\ \A p \in Analyzing :
         /\ w_proc[p].analyzer.process = p
         /\ w_proc[p].analyzer.job = w_proc[p].job
    /\ \A p, q \in Processes :
         (p # q /\ w_proc[p].job # 0) => w_proc[p].job # w_proc[q].job

\* every process runs a pipeline on its analyzer after an earlier call has
\* already returned
C17_Witness ==
    /\ Analyzing = Processes
    /\ w_done # {}

----------------------------------------------------------------------------
(* Properties of Spec: the stored batch read back *)

\* chunk_id -> (status, scores) of a list of chunk results
ChunkMapping(rs) ==
    {[chunk_id |-> rs[k].chunk_id,
      status |-> rs[k].status,
      scores |-> [communication |-> rs[k].communication.score,
                  engagement |-> rs[k].engagement.score,
                  clarity |-> rs[k].clarity.score,
                  interaction |-> rs[k].interaction.score,
                  overall |-> rs[k].overall_score]] : k \in 1..Len(rs)}

\* C18: once get_batch_results has answered for the batch_id of a batch that
\* _save_batch_results stored, the answer is a BatchAnalysisResponse whose
\* mapping chunk_id -> (status, scores) is the one of the response that
\* process_batch returned.
C18_RoundTrip ==
    (pc = "done" /\ fetched \notin {Pending, [kind |-> "not_found"]}) =>
        /\ ~IsExc(fetched)
        /\ ChunkMapping(fetched.value.results) = ChunkMapping(response.results)

----------------------------------------------------------------------------
(* Properties of SpecPipeline: the failed result *)

\* C19: the result of a chunk that failed in extraction or transcription has
\* as processing_time the elapsed time analyze_chunk recorded at the failure.
C19_FailedProcessingTime ==
    (p_stage = "formatted" /\ p_data.failed \in {"extract", "transcribe"}) =>
        /\ p_raw.value.processing_time = p_data.elapsed
        /\ p_result.processing_time = p_raw.value.processing_time

\* C20: a failed result carries as error_message, unchanged, the message of
\* the exception that a stage or the worker raised; a successful result has
\* no error_message.
C20_ErrorMessageVerbatim ==
    p_stage = "formatted" =>
        /\ p_result.status = "failed" =>
             /\ p_data.failed # "none"
             /\ p_result.error_message # "None"
             /\ p_result.error_message = p_data.raised
        /\ p_result.status = "success" =>
             /\ p_data.failed = "none"
             /\ p_result.error_message = "None"

\* a failed extraction has been formatted with the message of its exception
C20_Witness ==
    /\ p_stage = "formatted"
    /\ p_data.failed = "extract"
    /\ p_data.raised \in ExtractErrors
    /\ p_result.status = "failed"
    /\ p_result.error_message = p_data.raised

----------------------------------------------------------------------------
(* Properties of SpecHang and SpecFair *)

\* the result process_batch holds for chunk i, if any
ResultOf(i) == {results[k] : k \in {k \in 1..Len(results) : results[k].chunk_id = i}}

\* C21: when the pipeline of a chunk never terminates, process_batch still
\* returns in the end, with a failed result for that chunk.
C21_StuckChunkTimesOut ==
    (hung # {}) ~>
        /\ BatchReturned
        /\ \A i \in hung : \E r \in ResultOf(i) : r.status = "failed"

\* the call of chunk i has ended: its future holds a value or an exception
Completed(i) == i <= submitted /\ future[i].kind \in {"value", "exception"}

\* C22: a pipeline that never terminates holds only its own worker process:
\* every other submitted chunk is started and runs to completion (the chunk
\* either ends or is itself the one that hangs).
C22_HungBlocksOnlyItsSlot ==
    \A i \in 1..MaxChunks :
        (i <= submitted /\ future[i] = Pending) ~> (Completed(i) \/ i \in hung)

\* while one pipeline hangs, a chunk that had to wait in the queue for a
\* process has run to completion
C22_Witness ==
    /\ hung # {}
    /\ \E i \in (max_workers + 1)..MaxChunks :
         /\ Completed(i)
         /\ \A j \in hung : j < i

\* C23: process_batch submits all N chunks before it awaits a result, and
\* under fair scheduling, with every pipeline terminating, submission goes
\* on to the last chunk without waiting for a process, every submitted chunk
\* runs, and process_batch returns with all N results.
C23_AllQueuedJobsRun ==
    /\ [](awaited > 0 \/ pc = "await" => submitted = N)
    /\ (pc = "submit") ~> (submitted = N)
    /\ \A i \in 1..MaxChunks :
         (i <= submitted /\ future[i] = Pending) ~> Completed(i)
    /\ (pc = "submit") ~> (BatchReturned /\ Len(results) = N)

\* process_batch has returned the results of more chunks than there are
\* worker processes
C23_Witness ==
    /\ pc = "save"
    /\ N > max_workers
    /\ Len(results) = N
    /\ \A i \in 1..N : Completed(i)

----------------------------------------------------------------------------
(* Properties of SpecStore *)

C30_DeletedVideoHasNoAnalyses ==
    \A v \in d_deleted : AnalysesOf(v) = {}

----------------------------------------------------------------------------
(* Properties of Spec: the order in which chunks start *)

\* the call of chunk i has been handed to a worker process
Started(i) ==
    /\ i <= submitted
    /\ \A k \in 1..Len(queue) : queue[k] # i

\* C25: a chunk never starts before every chunk submitted earlier has
\* started; nothing is said about the order in which chunks finish.
C25_StartInSubmissionOrder ==
    \A i \in 1..submitted :
        Started(i) => \A j \in 1..(i - 1) : Started(j)

\* with more chunks than worker processes, a chunk that had to queue has
\* started, and a chunk has finished before one submitted earlier
C25_Witness ==
    /\ N > max_workers
    /\ Started(max_workers + 1)
    /\ overtaken

----------------------------------------------------------------------------
(* Properties of Spec: the video documents of a batch *)

\* C29: after the batch request has ended, by returning or by raising, no
\* video document it inserted is left in status "processing": each is
\* "completed" when the result of its chunk is "success" and "failed"
\* otherwise.
C29_NoVideoLeftProcessing ==
    pc \in {"done", "raised"} =>
        \A v \in DOMAIN videos :
            videos[v] # "none" =>
                /\ videos[v] # "processing"
                /\ videos[v] = "completed" <=>
                     \E r \in ResultOf(v) : r.status = "success"

----------------------------------------------------------------------------
(* Properties of SpecContext *)

----------------------------------------------------------------------------
(* Properties of SpecCrash *)

\* C27: when the worker process of chunk i dies, only chunk i is reported
\* as failed because of it: every other chunk of the batch is run and gets
\* the result of its own pipeline, none gets the error of the broken pool.
C27_CrashIsolation ==
    crashed # 0 =>
        \A k \in 1..Len(results) :
            results[k].chunk_id # crashed =>
                results[k].error_message # BrokenProcessPool.msg

----------------------------------------------------------------------------
(* Properties of SpecScoring: the eye-contact percentage *)

\* C28: the eye_contact_percentage that analyze_video returns lies in
\* [0,100] for every video length and frame rate, so that the eye-contact
\* sub-signal used by the scores is at most 1.
C28_EyeContactWithinRange ==
    (sc_mode \in {"chunk", "video"}
       /\ "eye_contact_percentage" \in DOMAIN sc_in.visual_data) =>
        /\ 0 <= sc_in.visual_data.eye_contact_percentage
        /\ sc_in.visual_data.eye_contact_percentage <= 10000

====
